---------------------------- MODULE Spec2Model ----------------------------
(***************************************************************************)
(* A model of the metadata normalization, entity resolution and frequency  *)
(* inference pipeline of un80-sg-reports-survey (src/python).              *)
(*                                                                         *)
(* The pipeline's components are independent batch computations, so each   *)
(* gets a specification of its own over the shared variables; the          *)
(* variables of the other components stay at their idle values:            *)
(*   SpecFreq   06_calculate_frequencies.py  calculate_frequency           *)
(*   SpecTok    util/metadata_cleaning.py    _split_symbol_with_separators *)
(*   SpecNotes  util/metadata_link_extraction.py                           *)
(*   SpecShape  util/metadata_cleaning.py    clean_lists_for_postgres,     *)
(*                                           explode_document_symbol_column*)
(*   SpecClean  util/metadata_cleaning.py    clean_metadata                *)
(*   SpecFuzzy  02_populate_reporting_entities.py                          *)
(*                                           match_dri_to_proper_titles    *)
(*   SpecStore  01_get_reports.py            store_documents_in_db         *)
(*  SpecCategory  get_reports.py  infer_document_category, store's category*)
(*  SpecPager     01_get_reports.py / get_reports.py  get_reports_metadata,*)
(*                with fairness of the loop                                *)
(*  SpecEmbed     01_get_reports.py store_documents_in_db and              *)
(*                03_generate_embeddings.py main over one table            *)
(*   SpecResolver  02_populate_reporting_entities.py main and              *)
(*                 05_ai_entity_suggestions.py main_async, interleaved     *)
(*   SpecDgacm     02_populate_reporting_entities.py                       *)
(*                                           map_dgacm_to_proper_titles    *)
(*   SpecLlmStages 05_ai_entity_suggestions.py main_async, or              *)
(*                 04_extract_mandate_info.py main                         *)
(*   SpecClassifierFair  repeated runs of main_async with skip_existing,   *)
(*                 with fairness                                           *)
(*                                                                         *)
(* Python strings are sequences of one-character strings; a DataFrame cell *)
(* is a tagged record (Cell below), a list a sequence.                     *)
(***************************************************************************)
EXTENDS Integers, Sequences, FiniteSets, Bags, TLC

VARIABLES
    \* ---- calculate_frequency
    years,          \* the argument: list of publication years (with repeats)
    freq_result,    \* the returned (label, gap_history), or NoResult
    \* ---- _split_symbol_with_separators
    symbol,         \* the argument: a string, or NA
    parts,          \* the returned token list, or NoResult
    \* ---- extract_resolution_symbols_from_notes
    notes,          \* the argument: NA, one note (Str) or a list of notes
    resolution_symbols, \* the returned list of inferred symbols, or NoResult
    \* ---- clean_lists_for_postgres, explode_document_symbol_column
    df,             \* the DataFrame: its columns and its rows (column -> cell)
    df_in,          \* the DataFrame as the last function applied received it
    strict,         \* the keyword argument of clean_lists_for_postgres
    stage,          \* "raw", "cleaned", "cleaned_twice", "exploded", "failed",
                    \* "failed_again"
    error,          \* the exception raised, or NoError
    \* ---- match_dri_to_proper_titles
    dri_df,         \* the external roster: norm_title, ENTITY, DOCUMENT TITLE
    db_df,          \* the canonical pool: proper_title, norm_title, symbol
    ratio,          \* SequenceMatcher(None, s1, s2).ratio() in 1/10000, per pair
    row_i,          \* rows of dri_grouped the loop has gone through
    proper_title_matches, \* the dict of the best match per (proper_title, entity)
    dri_suggestions, \* the returned list of suggestions, or NoResult
    \* ---- store_documents_in_db
    batch,          \* the DataFrame passed to store_documents_in_db
    store_rows,     \* the tuples assembled for the INSERT, after deduplication
    store_pc,       \* "start", "writing", "done" or "failed"
    page_i,         \* the offset i of the next page rows[i:i + batch_size]
    documents,      \* the documents table: symbol -> committed row
    clock,          \* NOW() of the next transaction
    store_run,      \* the number of the ingestion of the batch
    documents_first, \* the table as the first ingestion left it
    store_error,    \* the exception raised by the ingestion, or NoError
    store_log,      \* per ingestion: the table found, the outcome, the failed page
    \* ---- the entity resolver: scripts 02 and 05
    dgacm_df,       \* the manual roster: symbol, entity
    dgacm_result,   \* dgacm_suggestions of main: the returned list, or NoResult
    report_entity_suggestions, \* the table: the bag of its rows
    cache_files,    \* .cache/entity_suggestions: bucket -> the file's content
    bucket_of,      \* the hash bucket of each report in the running process
    reports,        \* the list get_reports_to_classify returned to the run
    results,        \* per task of the gather: the dict returned, or Pending
    responses,      \* per task: what the collaborator answered, or NotCalled
    skip_existing,  \* the argument of the LLM matcher's run
    resolver_pc,    \* "idle", "classifying", "stored", "interrupted", "populated"
    \* ---- mandate extraction: script 04
    mandate_memory, \* joblib's cache: per resolution, the dict an earlier call returned
    resolutions,    \* the resolutions of the run, by symbol
    mandate_results, \* the list results of main
    mandate_responses, \* per result: what the collaborator answered, or NotCalled
    resolution_mandates, \* the table: its rows in the order of insertion
    mandate_pc,     \* "idle", "extracting", "stored"
    \* ---- store_documents_in_db of get_reports.py: the document category
    cat_df,         \* the DataFrame: symbol and resource_type_level3 of its rows
    document_category, \* the keyword argument: the override, or None
    cats,           \* document_category of the tuples assembled, or NoResult
    \* ---- get_reports_metadata
    pager_skip,     \* skip
    all_results,    \* all_results
    old_streak,     \* old_streak
    fetched,        \* the calls of _search_document_symbols: skip and the page returned
    pager_pc,       \* "loop" or "returned"
    \* ---- 03_generate_embeddings.py
    embedding       \* the embedding column of documents: symbol -> value, NULL left out

freqVars == <<years, freq_result>>
tokVars == <<symbol, parts>>
noteVars == <<notes, resolution_symbols>>
shapeVars == <<df, df_in, strict, stage, error>>
fuzzyVars == <<dri_df, db_df, ratio, row_i, proper_title_matches, dri_suggestions>>
storeVars == <<batch, store_rows, store_pc, page_i, documents, clock, store_run, documents_first,
               store_error, store_log>>
resolverVars == <<dgacm_df, dgacm_result, report_entity_suggestions, cache_files, bucket_of,
                  reports, results, responses, skip_existing, resolver_pc>>
mandateVars == <<mandate_memory, resolutions, mandate_results, mandate_responses,
                 resolution_mandates, mandate_pc>>
categoryVars == <<cat_df, document_category, cats>>
pagerVars == <<pager_skip, all_results, old_streak, fetched, pager_pc>>
embedVars == <<embedding>>
vars == <<years, freq_result, symbol, parts, notes, resolution_symbols,
          df, df_in, strict, stage, error,
          dri_df, db_df, ratio, row_i, proper_title_matches, dri_suggestions,
          batch, store_rows, store_pc, page_i, documents, clock, store_run, documents_first,
          store_error, store_log,
          dgacm_df, dgacm_result, report_entity_suggestions, cache_files, bucket_of, reports,
          results, responses, skip_existing, resolver_pc,
          mandate_memory, resolutions, mandate_results, mandate_responses, resolution_mandates,
          mandate_pc,
          cat_df, document_category, cats,
          pager_skip, all_results, old_streak, fetched, pager_pc,
          embedding>>

\* The value of a result variable before its function has been called.
NoResult == [called |-> FALSE]

(***************************************************************************)
(* DataFrame cells and Python values                                       *)
(***************************************************************************)

\* A missing value: None, NaN, pd.NA.
NA == [k |-> "na", v |-> <<>>]

\* A Python str, as its sequence of characters.
Str(cs) == [k |-> "str", v |-> cs]

\* A Python list, as the sequence of its elements (character sequences).
List(xs) == [k |-> "list", v |-> xs]

\* pd.isna(x) of a scalar
IsNA(x) == x.k = "na"

\* isinstance(x, list)
IsList(x) == x.k = "list"

\* isinstance(x, str)
IsStr(x) == x.k = "str"

(***************************************************************************)
(* Generic helpers for Python lists                                        *)
(***************************************************************************)

\* All sequences over S of length 0..n.
SeqsUpTo(S, n) == UNION {[1..k -> S] : k \in 0..n}

\* The set of a list's elements: set(xs).
ToSet(xs) == {xs[i] : i \in DOMAIN xs}

\* sum(xs) of a list of integers.
RECURSIVE SumSeq(_)
SumSeq(xs) == IF xs = <<>> THEN 0 ELSE Head(xs) + SumSeq(Tail(xs))

\* [x] * n
RECURSIVE Repeat(_, _)
Repeat(x, n) == IF n <= 0 THEN <<>> ELSE <<x>> \o Repeat(x, n - 1)

\* The concatenation of a list of lists ("".join(parts) on strings).
RECURSIVE Concat(_)
Concat(xss) == IF xss = <<>> THEN <<>> ELSE Head(xss) \o Concat(Tail(xss))

Max(a, b) == IF a >= b THEN a ELSE b

\* Number of positions of xs holding x: xs.count(x).
Count(xs, x) == Cardinality({i \in DOMAIN xs : xs[i] = x})

(***************************************************************************)
(* Frequency Estimator: 06_calculate_frequencies.py                        *)
(***************************************************************************)

\* Longest year list drawn as an input.
MaxYears == 5

\* The publication years the inputs are drawn from: their differences give
\* the gaps 1..9, 11 and more, so that every label of the mapping is reached.
YearSet == {2024, 2023, 2022, 2021, 2019, 2018, 2017, 2011, 2000}

\* Counter(years): year -> number of observations.
Counter(xs) == [x \in ToSet(xs) |-> Count(xs, x)]

\* sorted(S, reverse=True) of a set of integers.
RECURSIVE SortedDesc(_)
SortedDesc(S) ==
    IF S = {} THEN <<>>
    ELSE LET m == CHOOSE x \in S : \A y \in S : y <= x
         IN <<m>> \o SortedDesc(S \ {m})

\* The differences taken the other way round.
ConsecutiveGaps_Reversed(sorted_years) ==
    [i \in 1..(Len(sorted_years) - 1) |-> sorted_years[i + 1] - sorted_years[i]]

\* [sorted_years[i] - sorted_years[i + 1] for i in range(len(sorted_years) - 1)]
ConsecutiveGaps(sorted_years) ==
    [i \in 1..(Len(sorted_years) - 1) |-> sorted_years[i] - sorted_years[i + 1]]

\* [g for g in gaps if g > 0]
RECURSIVE PositiveGaps(_)
PositiveGaps(gaps) ==
    IF gaps = <<>> THEN <<>>
    ELSE (IF Head(gaps) > 0 THEN <<Head(gaps)>> ELSE <<>>) \o PositiveGaps(Tail(gaps))

\* Every gap weighted alike.
GapWeight_Unweighted(i) == 1

\* weight = max(1, 3 - i) for the gap at 0-based position i.
GapWeight(i) == Max(1, 3 - i)

\* The loop that extends weighted_gaps with [gap] * weight.
WeightedGaps(valid_gaps) ==
    Concat([j \in 1..Len(valid_gaps) |-> Repeat(valid_gaps[j], GapWeight(j - 1))])

\* A mode that keeps the last of the values with equal counts.
MostCommon_LastOfTies(xs) ==
    LET best == CHOOSE i \in DOMAIN xs :
                    /\ \A j \in DOMAIN xs : Count(xs, xs[j]) <= Count(xs, xs[i])
                    /\ \A j \in (i + 1)..Len(xs) :
                          xs[j] # xs[i] => Count(xs, xs[j]) < Count(xs, xs[i])
    IN xs[best]

\* Counter(xs).most_common(1)[0][0] of a non-empty list: the value with the
\* highest count; max() over the counter's items keeps the first of equal
\* counts, and a Counter iterates in order of first insertion.
MostCommon(xs) ==
    LET best == CHOOSE i \in DOMAIN xs :
                    /\ \A j \in DOMAIN xs : Count(xs, xs[j]) <= Count(xs, xs[i])
                    /\ \A j \in 1..(i - 1) : Count(xs, xs[j]) < Count(xs, xs[i])
    IN xs[best]

\* The dict lookup of the five named labels, then the fallback branches.
FrequencyLabel(mode_gap) ==
    CASE mode_gap = 1 -> "annual"
      [] mode_gap = 2 -> "biennial"
      [] mode_gap = 3 -> "triennial"
      [] mode_gap = 4 -> "quadrennial"
      [] mode_gap = 5 -> "quinquennial"
      [] OTHER -> IF mode_gap <= 10
                  THEN "every-" \o ToString(mode_gap) \o "-years"
                  ELSE "irregular"

\* The test without its guard unique_years >= 2.
MultiplePerYear_NoUniqueGuard(ys) ==
    LET year_counts == [x \in ToSet(ys) |-> Count(ys, x)]
        years_with_multiple ==
            Cardinality({y \in DOMAIN year_counts : year_counts[y] > 1})
    IN /\ Len(ys) >= 3
       /\ \/ Len(ys) >= 2 * Cardinality(DOMAIN year_counts)
          \/ /\ 2 * Len(ys) >= 3 * Cardinality(DOMAIN year_counts)
             /\ 5 * years_with_multiple >= 2 * Cardinality(DOMAIN year_counts)

\* The test with "and" mistaken for "or" in its second alternative.
MultiplePerYear_OrFraction(ys) ==
    LET year_counts == [x \in ToSet(ys) |-> Count(ys, x)]
        years_with_multiple ==
            Cardinality({y \in DOMAIN year_counts : year_counts[y] > 1})
    IN /\ Len(ys) >= 3
       /\ Cardinality(DOMAIN year_counts) >= 2
       /\ \/ Len(ys) >= 2 * Cardinality(DOMAIN year_counts)
          \/ 2 * Len(ys) >= 3 * Cardinality(DOMAIN year_counts)
          \/ 5 * years_with_multiple >= 2 * Cardinality(DOMAIN year_counts)

\* The test of the multiple-per-year branch.  avg_per_year is the float
\* total_reports / unique_years; on integers avg >= 2.0 is total >= 2*unique,
\* avg >= 1.5 is 2*total >= 3*unique, and years_with_multiple >=
\* unique_years * 0.4 is 5*years_with_multiple >= 2*unique_years (the float
\* product n * 0.4 compares like 2n/5 for every n below 3000 and every count).
MultiplePerYear(ys) ==
    LET year_counts == Counter(ys)
        total_reports == Len(ys)
        unique_years == Cardinality(DOMAIN year_counts)
        years_with_multiple ==
            Cardinality({y \in DOMAIN year_counts : year_counts[y] > 1})
    IN /\ total_reports >= 3
       /\ unique_years >= 2
       /\ \/ total_reports >= 2 * unique_years
          \/ /\ 2 * total_reports >= 3 * unique_years
             /\ 5 * years_with_multiple >= 2 * unique_years

FreqReturn(label, gaps) == [called |-> TRUE, label |-> label, gaps |-> gaps]

calculate_frequency(ys) ==
    IF Len(ys) < 2 THEN FreqReturn("one-time", <<>>)
    ELSE LET sorted_years == SortedDesc(ToSet(ys))
             gaps == ConsecutiveGaps(sorted_years)
             valid_gaps == PositiveGaps(gaps)
         IN IF MultiplePerYear(ys) THEN FreqReturn("multiple-per-year", gaps)
            ELSE IF Len(sorted_years) < 2 THEN FreqReturn("one-time", <<>>)
            ELSE IF gaps = <<>> THEN FreqReturn("one-time", <<>>)
            ELSE IF valid_gaps = <<>> THEN FreqReturn("one-time", gaps)
            ELSE FreqReturn(FrequencyLabel(MostCommon(WeightedGaps(valid_gaps))), gaps)

InitFreq ==
    /\ years \in SeqsUpTo(YearSet, MaxYears)
    /\ freq_result = NoResult

IdleFreq ==
    /\ years = <<>>
    /\ freq_result = NoResult

\* main(): frequency, gap_history = calculate_frequency(years) for a group.
CalculateFrequency ==
    /\ ~freq_result.called
    /\ freq_result' = calculate_frequency(years)
    /\ UNCHANGED years


(***************************************************************************)
(* Symbol Tokenizer: util/metadata_cleaning.py                             *)
(***************************************************************************)

\* Longest symbol drawn as an input.
MaxSymbolLen == 4

SYMBOL_SEPARATORS == <<"/", "(", ")", "[", "]", "-", ".", " ">>

\* The characters symbols are drawn from: every separator and two others.
SymbolAlphabet == ToSet(SYMBOL_SEPARATORS) \cup {"A", "1"}

\* A character the pattern "(" + "|".join(re.escape(sep) ...) + ")" matches.
IsSeparator(c) == \E i \in DOMAIN SYMBOL_SEPARATORS : SYMBOL_SEPARATORS[i] = c

\* re.split(pattern, s) where pattern is one capturing group matching a single
\* separator: the text before the first separator, then for each separator the
\* separator itself and the text up to the next one; empty texts included.
RECURSIVE ReSplitFrom(_, _)
ReSplitFrom(s, run) ==
    IF s = <<>> THEN <<run>>
    ELSE IF IsSeparator(Head(s))
         THEN <<run, <<Head(s)>>>> \o ReSplitFrom(Tail(s), <<>>)
         ELSE ReSplitFrom(Tail(s), Append(run, Head(s)))

ReSplit(s) == ReSplitFrom(s, <<>>)

\* The filter of empty strings left out.
DropEmptyParts_KeepAll(ps) == ps

\* [part for part in parts if part]
NonEmptyPart(part) == part # <<>>

DropEmptyParts(ps) == SelectSeq(ps, NonEmptyPart)

\* _split_symbol_with_separators(symbol); str(symbol) of a str is itself.
split_symbol_with_separators(sym) ==
    IF IsNA(sym) THEN <<>> ELSE DropEmptyParts(ReSplit(sym.v))

InitTok ==
    /\ symbol \in {NA} \cup {Str(cs) : cs \in SeqsUpTo(SymbolAlphabet, MaxSymbolLen)}
    /\ parts = NoResult

IdleTok ==
    /\ symbol = NA
    /\ parts = NoResult

\* add_symbol_split: df["symbol"].apply(_split_symbol_with_separators), one row.
SplitSymbol ==
    /\ ~parts.called
    /\ parts' = [called |-> TRUE, tokens |-> split_symbol_with_separators(symbol)]
    /\ UNCHANGED symbol

(***************************************************************************)
(* Resolution-Reference Extractor: util/metadata_link_extraction.py        *)
(***************************************************************************)

\* Most tokens after the trigger phrase in a note drawn as an input.
MaxNoteTokens == 4

LowerLetters == <<"a", "b", "c", "d", "e", "f", "g", "h", "i", "j", "k", "l", "m", "n", "o", "p", "q", "r", "s", "t", "u", "v", "w", "x", "y", "z">>

UpperLetters == <<"A", "B", "C", "D", "E", "F", "G", "H", "I", "J", "K", "L", "M", "N", "O", "P", "Q", "R", "S", "T", "U", "V", "W", "X", "Y", "Z">>

Letters == ToSet(LowerLetters) \cup ToSet(UpperLetters)

\* c.lower() and c.upper() of one ASCII character.
Lower(c) ==
    IF \E i \in DOMAIN UpperLetters : UpperLetters[i] = c
    THEN LowerLetters[CHOOSE i \in DOMAIN UpperLetters : UpperLetters[i] = c]
    ELSE c

Upper(c) ==
    IF \E i \in DOMAIN LowerLetters : LowerLetters[i] = c
    THEN UpperLetters[CHOOSE i \in DOMAIN LowerLetters : LowerLetters[i] = c]
    ELSE c

\* The regex classes \d, \s and \w on the characters of the inputs.
Digits == {"0", "1", "2", "3", "4", "5", "6", "7", "8", "9"}

Spaces == {" ", "\t", "\n"}

WordChars == Letters \cup Digits \cup {"_"}

\* The letters a, n, d of a character class, under re.IGNORECASE.
LettersAnd == {"a", "n", "d", "A", "N", "D"}

\* [\d/\s\w,and], [\d\s\(\),and] and [\d/\s,and]
GA_CLASS == Digits \cup {"/", ","} \cup Spaces \cup WordChars

SC_CLASS == Digits \cup {"(", ")", ","} \cup Spaces \cup LettersAnd

SLASH_CLASS == Digits \cup {"/", ","} \cup Spaces \cup LettersAnd

\* The trigger phrases, lower-cased (they are matched under re.IGNORECASE).
GA_PHRASE == <<"g", "e", "n", "e", "r", "a", "l", " ", "a", "s", "s", "e", "m", "b", "l", "y", " ", "r", "e", "s", "o", "l", "u", "t", "i", "o", "n">>

SC_PHRASE == <<"s", "e", "c", "u", "r", "i", "t", "y", " ", "c", "o", "u", "n", "c", "i", "l", " ", "r", "e", "s", "o", "l", "u", "t", "i", "o", "n">>

ECOSOC_PHRASE == <<"e", "c", "o", "s", "o", "c", " ", "r", "e", "s", "o", "l", "u", "t", "i", "o", "n">>

ECOSOC_LONG_PHRASE == <<"e", "c", "o", "n", "o", "m", "i", "c", " ", "a", "n", "d", " ", "s", "o", "c", "i", "a", "l", " ", "c", "o", "u", "n", "c", "i", "l", " ", "r", "e", "s", "o", "l", "u", "t", "i", "o", "n">>

HRC_PHRASE == <<"h", "u", "m", "a", "n", " ", "r", "i", "g", "h", "t", "s", " ", "c", "o", "u", "n", "c", "i", "l", " ", "r", "e", "s", "o", "l", "u", "t", "i", "o", "n">>

\* The first position from i on whose character is not in class, Len(s) + 1
\* when there is none: where a greedy run of the class starting at i ends.
RunEnd(s, i, class) ==
    CHOOSE r \in i..(Len(s) + 1) :
        /\ r = Len(s) + 1 \/ s[r] \notin class
        /\ \A q \in i..(r - 1) : s[q] \in class

\* The literal phrase matches at position p, ignoring case.
PhraseAt(s, p, phrase) ==
    /\ p + Len(phrase) - 1 <= Len(s)
    /\ \A k \in DOMAIN phrase : Lower(s[p + k - 1]) = phrase[k]

NoMatch == [matched |-> FALSE, text |-> <<>>]

\* The rest of a trigger pattern from position a, right after the phrase:
\*   [s]?\s+(class+?)(?:\.|;|$)
\* [s]? takes an "s" when there is one; \s+ takes the run of white space (g its
\* end); the lazy group takes the class characters up to the first character
\* outside the class (r), which must be ".", ";" or the end of the note.  When
\* the white space runs up to r, \s+ gives back its last character to the group.
CaptureAfter(s, a, class) ==
    LET b == IF a <= Len(s) /\ Lower(s[a]) = "s" THEN a + 1 ELSE a
        g == RunEnd(s, b, Spaces)
        r == RunEnd(s, g, class)
    IN IF g = b \/ ~(r = Len(s) + 1 \/ s[r] \in {".", ";"}) THEN NoMatch
       ELSE IF r > g THEN [matched |-> TRUE, text |-> SubSeq(s, g, r - 1)]
       ELSE IF g - b >= 2 THEN [matched |-> TRUE, text |-> SubSeq(s, g - 1, g - 1)]
       ELSE NoMatch

\* The pattern with one of the phrases matches at position p.
MatchAt(s, p, phrases, class) ==
    IF \E ph \in phrases : PhraseAt(s, p, ph) /\ CaptureAfter(s, p + Len(ph), class).matched
    THEN CaptureAfter(s, p + Len(CHOOSE ph \in phrases :
                         PhraseAt(s, p, ph) /\ CaptureAfter(s, p + Len(ph), class).matched),
                      class)
    ELSE NoMatch

\* re.search(pattern, note, re.IGNORECASE): the match at the leftmost position.
Search(s, phrases, class) ==
    IF \E p \in DOMAIN s : MatchAt(s, p, phrases, class).matched
    THEN MatchAt(s, CHOOSE p \in DOMAIN s :
                        /\ MatchAt(s, p, phrases, class).matched
                        /\ \A q \in 1..(p - 1) : ~MatchAt(s, q, phrases, class).matched,
                 phrases, class)
    ELSE NoMatch

\* (\d+/\d+) at position i of t: the end of the match, 0 when there is none.
NumberEnd(t, i) ==
    LET d1 == RunEnd(t, i, Digits)
        d2 == RunEnd(t, d1 + 1, Digits)
    IN IF d1 > i /\ d1 <= Len(t) /\ t[d1] = "/" /\ d2 > d1 + 1 THEN d2 ELSE 0

\* (?:\s*([A-Z]))? under re.IGNORECASE after a number ending before position
\* e: the position of the captured letter, 0 when the group matches nothing.
SuffixAt(t, e) ==
    LET w == RunEnd(t, e, Spaces)
    IN IF w <= Len(t) /\ t[w] \in Letters THEN w ELSE 0

RES_PREFIX_GA == <<"A", "/", "R", "E", "S", "/">>

RES_PREFIX_SC == <<"S", "/", "R", "E", "S", "/">>

RES_PREFIX_ECOSOC == <<"E", "/", "R", "E", "S", "/">>

RES_PREFIX_HRC == <<"A", "/", "H", "R", "C", "/", "R", "E", "S", "/">>

\* The loop over re.finditer(r"(\d+/\d+)(?:\s*([A-Z]))?", res_text,
\* re.IGNORECASE), from position i: the inferred symbols in text order.
RECURSIVE GaSymbolsFrom(_, _)
GaSymbolsFrom(t, i) ==
    IF i > Len(t) THEN <<>>
    ELSE IF NumberEnd(t, i) = 0 THEN GaSymbolsFrom(t, i + 1)
    ELSE LET e == NumberEnd(t, i)
             w == SuffixAt(t, e)
             num == SubSeq(t, i, e - 1)
             suffix == IF w # 0 THEN <<" ", Upper(t[w])>> ELSE <<>>
         IN <<RES_PREFIX_GA \o num \o suffix>>
            \o GaSymbolsFrom(t, IF w # 0 THEN w + 1 ELSE e)

\* The loop over re.finditer(r"(\d+/\d+)", res_text), from position i.
RECURSIVE SlashSymbolsFrom(_, _, _)
SlashSymbolsFrom(t, i, prefix) ==
    IF i > Len(t) THEN <<>>
    ELSE IF NumberEnd(t, i) = 0 THEN SlashSymbolsFrom(t, i + 1, prefix)
    ELSE <<prefix \o SubSeq(t, i, NumberEnd(t, i) - 1)>>
         \o SlashSymbolsFrom(t, NumberEnd(t, i), prefix)

\* (\d+)\s*\((\d{4})\) at position i of t: the end of the match, 0 when none.
\* \d+ may give back digits, but then a digit, not "(", follows it.
ScNumberEnd(t, i) ==
    LET d1 == RunEnd(t, i, Digits)
        w == RunEnd(t, d1, Spaces)
    IN IF /\ d1 > i
          /\ w + 5 <= Len(t)
          /\ t[w] = "("
          /\ \A k \in 1..4 : t[w + k] \in Digits
          /\ t[w + 5] = ")"
       THEN w + 6 ELSE 0

\* The loop over re.finditer(r"(\d+)\s*\((\d{4})\)", res_text), from position i.
RECURSIVE ScSymbolsFrom(_, _)
ScSymbolsFrom(t, i) ==
    IF i > Len(t) THEN <<>>
    ELSE IF ScNumberEnd(t, i) = 0 THEN ScSymbolsFrom(t, i + 1)
    ELSE LET e == ScNumberEnd(t, i)
             d1 == RunEnd(t, i, Digits)
         IN <<RES_PREFIX_SC \o SubSeq(t, i, d1 - 1) \o <<" ", "(">>
              \o SubSeq(t, e - 5, e - 2) \o <<")">>>>
            \o ScSymbolsFrom(t, e)

\* extract_resolution_refs_from_note(note), reduced to the inferred_symbol of
\* each reference: the four patterns in turn, their results concatenated.
extract_resolution_refs_from_note(note) ==
    IF note = <<>> THEN <<>>
    ELSE LET ga == Search(note, {GA_PHRASE}, GA_CLASS)
             sc == Search(note, {SC_PHRASE}, SC_CLASS)
             ecosoc == Search(note, {ECOSOC_PHRASE, ECOSOC_LONG_PHRASE}, SLASH_CLASS)
             hrc == Search(note, {HRC_PHRASE}, SLASH_CLASS)
         IN (IF ga.matched THEN GaSymbolsFrom(ga.text, 1) ELSE <<>>)
            \o (IF sc.matched THEN ScSymbolsFrom(sc.text, 1) ELSE <<>>)
            \o (IF ecosoc.matched THEN SlashSymbolsFrom(ecosoc.text, 1, RES_PREFIX_ECOSOC)
                ELSE <<>>)
            \o (IF hrc.matched THEN SlashSymbolsFrom(hrc.text, 1, RES_PREFIX_HRC) ELSE <<>>)

\* [s for s in symbols if not (s in seen or seen.add(s))]: the first
\* occurrence of each element, in order.
RECURSIVE DedupePreserveOrder(_)
DedupePreserveOrder(xs) ==
    IF xs = <<>> THEN <<>>
    ELSE LET init == DedupePreserveOrder(SubSeq(xs, 1, Len(xs) - 1))
             last == xs[Len(xs)]
         IN IF \E i \in DOMAIN init : init[i] = last THEN init ELSE Append(init, last)

\* extract_resolution_symbols_from_notes(notes)
extract_resolution_symbols_from_notes(ns) ==
    IF IsNA(ns) \/ ns.v = <<>> THEN <<>>
    ELSE LET note_list == IF IsStr(ns) THEN <<ns.v>> ELSE ns.v
         IN DedupePreserveOrder(
                Concat([i \in DOMAIN note_list |->
                            extract_resolution_refs_from_note(note_list[i])]))

\* What follows the trigger phrase in the notes drawn as inputs: resolution
\* numbers, the joiners "and" and ",", a part letter, a further word, the stop.
NoteTokens ==
    { <<"7", "8", "/", "7", "0">>, <<"7", "9", "/", "1">>,
      <<" ", "a", "n", "d", " ">>, <<",", " ">>, <<" ", "B">>, <<".">> }

\* What precedes the list of numbers.
NoteHeads ==
    { <<"R", "e", "c", "a", "l", "l", "i", "n", "g", " ", "G", "e", "n", "e", "r", "a", "l", " ", "A", "s", "s", "e", "m", "b", "l", "y", " ", "r", "e", "s", "o", "l", "u", "t", "i", "o", "n", "s", " ">>,
      <<"G", "e", "n", "e", "r", "a", "l", " ", "A", "s", "s", "e", "m", "b", "l", "y", " ", "r", "e", "s", "o", "l", "u", "t", "i", "o", "n", " ">>,
      <<"H", "u", "m", "a", "n", " ", "R", "i", "g", "h", "t", "s", " ", "C", "o", "u", "n", "c", "i", "l", " ", "r", "e", "s", "o", "l", "u", "t", "i", "o", "n", " ">> }

NoteInputs ==
    {h \o Concat(ts) : h \in NoteHeads, ts \in SeqsUpTo(NoteTokens, MaxNoteTokens)}

\* The second note of the two-note inputs.
SecondNote == <<"S", "e", "e", " ", "S", "e", "c", "u", "r", "i", "t", "y", " ", "C", "o", "u", "n", "c", "i", "l", " ", "r", "e", "s", "o", "l", "u", "t", "i", "o", "n", " ", "2", "3", "3", "4", " ", "(", "2", "0", "1", "6", ")", ".">>

InitNotes ==
    /\ notes \in {NA} \cup {Str(n) : n \in NoteInputs}
                 \cup {List(<<n, SecondNote>>) : n \in NoteInputs}
    /\ resolution_symbols = NoResult

IdleNotes ==
    /\ notes = NA
    /\ resolution_symbols = NoResult

\* fetch_and_store: df["note"].apply(extract_resolution_symbols_from_notes)
ExtractResolutionSymbols ==
    /\ ~resolution_symbols.called
    /\ resolution_symbols' =
           [called |-> TRUE, symbols |-> extract_resolution_symbols_from_notes(notes)]
    /\ UNCHANGED notes

(***************************************************************************)
(* Field Normalizer and explosion: util/metadata_cleaning.py               *)
(***************************************************************************)

\* Most rows of a DataFrame drawn as an input.
MaxRows == 2

ALWAYS_LIST == {"subject_terms", "agenda_subjects", "agenda_item_title",
                "agenda_item_number", "related_resource_identifier",
                "resource_type_level1", "resource_type_level2",
                "resource_type_level3", "subtitle"}

ALWAYS_SCALAR == {"record_number", "proper_title", "other_title", "title",
                  "publication_date"}

CANDIDATE_SCALAR_FROM_LIST == {"uniform_title", "symbol", "date", "session_or_year",
                               "conference_name", "agenda_document_symbol", "note",
                               "corporate_name_level1", "corporate_name_level2"}

NoError == [raised |-> FALSE]

\* raise ValueError(msg): what the message names is kept.
ValueError(why, col, rows) ==
    [raised |-> TRUE, type |-> "ValueError", why |-> why, col |-> col, rows |-> rows]

\* _to_list that takes everything but a list for a missing value.
to_list_ScalarsDropped(x) == IF IsList(x) THEN x ELSE List(<<>>)

\* _to_list(x): a list unchanged, NaN as [], a scalar wrapped (with a warning).
to_list(x) ==
    IF IsList(x) THEN x
    ELSE IF IsNA(x) THEN List(<<>>)
    ELSE List(<<x.v>>)

\* _dedupe_list_preserve_order(x)
dedupe_list_preserve_order(x) ==
    IF ~IsList(x) THEN x ELSE List(DedupePreserveOrder(x.v))

\* _unpack_scalar raises for x: a list of length 2 or more.
UnpackRaises(x) == IsList(x) /\ Len(x.v) >= 2

\* _unpack_scalar(x) where it does not raise.
unpack_scalar(x) ==
    IF ~IsList(x) THEN x
    ELSE IF Len(x.v) = 0 THEN NA
    ELSE Str(x.v[1])

ToDedupedList(x) == dedupe_list_preserve_order(to_list(x))

\* df[col].apply(lambda v: _to_list(v, col=col)).apply(_dedupe_list_preserve_order)
DedupedColumn(rows, col) ==
    [i \in DOMAIN rows |-> [rows[i] EXCEPT ![col] = ToDedupedList(@)]]

\* df[col].apply(lambda v: _unpack_scalar(v, col=col)) where no cell raises
UnpackedColumn(rows, col) ==
    [i \in DOMAIN rows |-> [rows[i] EXCEPT ![col] = unpack_scalar(@)]]

\* Step 1 of clean_lists_for_postgres: every ALWAYS_LIST column of the frame.
\* The columns are independent, so the order of the loop does not matter.
RECURSIVE ListColumns(_, _)
ListColumns(rows, cols) ==
    IF cols = {} THEN rows
    ELSE LET c == CHOOSE c \in cols : TRUE
         IN ListColumns(DedupedColumn(rows, c), cols \ {c})

\* lengths = ser.apply(lambda x: len(x) if isinstance(x, list) else 0)
CellLength(x) == IF IsList(x) THEN Len(x.v) ELSE 0

\* max_len <= 1 for the normalized column col; lengths.max() of an empty
\* Series is NaN, and NaN <= 1 is False.
MaxLenAtMostOne(rows, col) ==
    /\ rows # <<>>
    /\ \A i \in DOMAIN rows : CellLength(rows[i][col]) <= 1

\* bad_idx[:10] = lengths[lengths > 1].index.tolist()[:10], as 0-based labels.
RECURSIVE BadIdxFrom(_, _, _)
BadIdxFrom(rows, col, i) ==
    IF i > Len(rows) THEN <<>>
    ELSE (IF CellLength(rows[i][col]) > 1 THEN <<i - 1>> ELSE <<>>)
         \o BadIdxFrom(rows, col, i + 1)

BadIdx(rows, col) ==
    LET all == BadIdxFrom(rows, col, 1)
    IN SubSeq(all, 1, IF Len(all) < 10 THEN Len(all) ELSE 10)

\* Step 2 for the candidate columns cols of a frame whose ALWAYS_LIST columns
\* are done: a record of the rows reached and the error raised on the way.
RECURSIVE CandidateColumns(_, _, _)
CandidateColumns(rows, cols, is_strict) ==
    IF cols = {} THEN [rows |-> rows, error |-> NoError]
    ELSE LET c == CHOOSE c \in cols : TRUE
             ser == DedupedColumn(rows, c)
         IN IF MaxLenAtMostOne(ser, c)
            THEN CandidateColumns(UnpackedColumn(ser, c), cols \ {c}, is_strict)
            ELSE IF is_strict
                 THEN [rows |-> rows,
                       error |-> ValueError("candidate_not_scalar", c, BadIdx(ser, c))]
                 ELSE CandidateColumns(ser, cols \ {c}, is_strict)

\* Step 3 for the always-scalar columns cols: df[col].apply(_unpack_scalar)
\* raises at the first row holding a list of 2 or more elements, before the
\* column is assigned.
RECURSIVE ScalarColumns(_, _)
ScalarColumns(rows, cols) ==
    IF cols = {} THEN [rows |-> rows, error |-> NoError]
    ELSE LET c == CHOOSE c \in cols : TRUE
             bad == {i \in DOMAIN rows : UnpackRaises(rows[i][c])}
         IN IF bad # {}
            THEN [rows |-> rows,
                  error |-> ValueError("scalar_expected", c,
                                       <<(CHOOSE i \in bad : \A j \in bad : i <= j) - 1>>)]
            ELSE ScalarColumns(UnpackedColumn(rows, c), cols \ {c})

\* clean_lists_for_postgres(df, strict=...): the frame as the call leaves it
\* (it is mutated in place) and the error raised, if any.
clean_lists_for_postgres(frame, is_strict) ==
    LET known_vars == ALWAYS_LIST \cup ALWAYS_SCALAR \cup CANDIDATE_SCALAR_FROM_LIST
        unknown_vars == frame.columns \ known_vars
        step1 == ListColumns(frame.rows, frame.columns \cap ALWAYS_LIST)
        step2 == CandidateColumns(step1, frame.columns \cap CANDIDATE_SCALAR_FROM_LIST,
                                  is_strict)
        step3 == ScalarColumns(step2.rows, frame.columns \cap ALWAYS_SCALAR)
    IN IF unknown_vars # {} /\ is_strict
       THEN [frame |-> frame, error |-> ValueError("unclassified", "", <<>>)]
       ELSE IF step2.error.raised
            THEN [frame |-> [frame EXCEPT !.rows = step2.rows], error |-> step2.error]
            ELSE [frame |-> [frame EXCEPT !.rows = step3.rows], error |-> step3.error]

\* Explosion without the removal of duplicates inside a list.
UniqueSymbols_KeepDuplicates(x) == x

\* lambda x: list(dict.fromkeys(x)) if isinstance(x, list) else x
UniqueSymbols(x) == IF IsList(x) THEN List(DedupePreserveOrder(x.v)) ELSE x

\* DataFrame.explode("symbol") of one row: one row per element of a list, one
\* row holding NaN for an empty list, the row itself for anything else; the
\* other columns are repeated.
ExplodeRow(row) ==
    IF ~IsList(row.symbol) THEN <<row>>
    ELSE IF row.symbol.v = <<>> THEN <<[row EXCEPT !.symbol = NA]>>
    ELSE [j \in DOMAIN row.symbol.v |-> [row EXCEPT !.symbol = Str(row.symbol.v[j])]]

\* explode_document_symbol_column(df); reset_index only renumbers the rows.
explode_document_symbol_column(frame) ==
    IF "symbol" \in frame.columns /\ \E i \in DOMAIN frame.rows : IsList(frame.rows[i].symbol)
    THEN [frame EXCEPT !.rows =
             Concat([i \in DOMAIN frame.rows |->
                        ExplodeRow([frame.rows[i] EXCEPT !.symbol = UniqueSymbols(@)])])]
    ELSE frame

\* The values the cells of the input frames are drawn from.
TitleT == <<"t">>
TitleU == <<"u">>
SymbolA == <<"a", "/", "1">>
SymbolB == <<"A", "/", "1", " ">>
SubjectX == <<"x">>

TitleCells ==
    {NA, List(<<>>), List(<<TitleT>>), List(<<TitleT, TitleT>>), List(<<TitleT, TitleU>>)}

SymbolCells ==
    {NA, Str(SymbolA), List(<<>>), List(<<SymbolA>>), List(<<SymbolA, SymbolB>>),
     List(<<SymbolB, SymbolA, SymbolB>>)}

SubjectCells == {Str(SubjectX), List(<<SubjectX, SubjectX>>)}

\* The raw payload of the record at position i: df["raw_json"] = raw_reports.
RawJson(i) == [k |-> "dict", v |-> <<ToString(i)>>]

\* The rows of the input frames: in a row at most one of the title and the
\* symbol departs from a list of one value; rows combine freely in a frame.
InputRows ==
    {r \in [proper_title : TitleCells, symbol : SymbolCells, subject_terms : SubjectCells] :
        r.proper_title = List(<<TitleT>>) \/ r.symbol = List(<<SymbolA>>)}

WithRawJson(rows) ==
    [i \in DOMAIN rows |->
        [proper_title |-> rows[i].proper_title, symbol |-> rows[i].symbol,
         subject_terms |-> rows[i].subject_terms, raw_json |-> RawJson(i)]]

InputFrames ==
    {[columns |-> {"proper_title", "symbol", "subject_terms"}, rows |-> rs] :
        rs \in SeqsUpTo(InputRows, MaxRows)}
    \cup {[columns |-> {"proper_title", "symbol", "subject_terms", "raw_json"},
           rows |-> WithRawJson(rs)] : rs \in SeqsUpTo(InputRows, MaxRows)}

InitShape ==
    /\ df \in InputFrames
    /\ df_in = df
    /\ strict \in BOOLEAN
    /\ stage = "raw"
    /\ error = NoError

IdleShape ==
    /\ df = [columns |-> {}, rows |-> <<>>]
    /\ df_in = [columns |-> {}, rows |-> <<>>]
    /\ strict = FALSE
    /\ stage = "raw"
    /\ error = NoError

\* df.pipe(clean_lists_for_postgres): the call returns or raises; it is
\* applied to a raw frame, or once more to the frame it returned.
CleanListsForPostgres ==
    /\ stage \in {"raw", "cleaned"}
    /\ LET out == clean_lists_for_postgres(df, strict)
       IN /\ df' = out.frame
          /\ error' = out.error
          /\ stage' = IF stage = "raw"
                      THEN (IF out.error.raised THEN "failed" ELSE "cleaned")
                      ELSE (IF out.error.raised THEN "failed_again" ELSE "cleaned_twice")
    /\ df_in' = df
    /\ UNCHANGED strict

\* .pipe(explode_document_symbol_column), after the shape enforcement in
\* clean_metadata or on a frame as it is.
ExplodeDocumentSymbolColumn ==
    /\ stage \in {"raw", "cleaned"}
    /\ df' = explode_document_symbol_column(df)
    /\ df_in' = df
    /\ stage' = "exploded"
    /\ UNCHANGED <<strict, error>>

\* ---- clean_metadata: the pipe from the shape enforcement to the columns
\* ---- derived from the symbol

\* s.strip(): leading and trailing whitespace removed.
RECURSIVE Strip(_)
Strip(cs) ==
    IF cs # <<>> /\ Head(cs) \in Spaces THEN Strip(Tail(cs))
    ELSE IF cs # <<>> /\ cs[Len(cs)] \in Spaces THEN Strip(SubSeq(cs, 1, Len(cs) - 1))
    ELSE cs

\* s.upper() of an ASCII string.
UpperStr(cs) == [i \in DOMAIN cs |-> Upper(cs[i])]

\* The symbol left as it arrived.
clean_documents_symbol_AsIs(document_symbol) == document_symbol

\* _clean_documents_symbol(document_symbol)
clean_documents_symbol(document_symbol) ==
    IF IsStr(document_symbol) THEN Str(UpperStr(Strip(document_symbol.v)))
    ELSE document_symbol

\* df["symbol"] = df["symbol"].apply(_clean_documents_symbol)
disambiguate_document_symbol(frame) ==
    IF "symbol" \in frame.columns
    THEN [frame EXCEPT !.rows = [i \in DOMAIN frame.rows |->
             [frame.rows[i] EXCEPT !.symbol = clean_documents_symbol(@)]]]
    ELSE frame

\* df.insert / df[name] = ...: the frame with columns added; added[i] holds
\* the values of the new columns in row i.
AddColumns(frame, names, added) ==
    [columns |-> frame.columns \cup names,
     rows |-> [i \in DOMAIN frame.rows |-> added[i] @@ frame.rows[i]]]

\* add_symbol_split: symbol_split and symbol_split_n = len(symbol_split).
add_symbol_split(frame) ==
    AddColumns(frame, {"symbol_split", "symbol_split_n"},
        [i \in DOMAIN frame.rows |->
            [symbol_split |-> split_symbol_with_separators(frame.rows[i].symbol),
             symbol_split_n |-> Len(split_symbol_with_separators(frame.rows[i].symbol))]])

\* check_is_part(symbol)
check_is_part(sym) ==
    IF ~IsStr(sym) THEN FALSE
    ELSE \E i \in DOMAIN sym.v : sym.v[i] = "[" \/ sym.v[i] = "]"

add_is_part_column(frame) ==
    AddColumns(frame, {"is_part"},
        [i \in DOMAIN frame.rows |-> [is_part |-> check_is_part(frame.rows[i].symbol)]])

\* The keys of ISSUING_BODY_MAPPING in the order of the dict.
ISSUING_BODY_MAPPING ==
    <<<<"A", "/", "R", "E", "S", "/">>,
      <<"A", "/", "D", "E", "C", "/">>,
      <<"S", "/", "R", "E", "S", "/">>,
      <<"S", "/", "P", "R", "S", "T", "/">>,
      <<"E", "/", "R", "E", "S", "/">>,
      <<"E", "/", "D", "E", "C", "/">>,
      <<"A", "/", "H", "R", "C", "/", "R", "E", "S", "/">>,
      <<"A", "/", "H", "R", "C", "/", "D", "E", "C", "/">>,
      <<"A", "/", "H", "R", "C", "/", "P", "R", "S", "T", "/">>>>

\* s.startswith(prefix)
StartsWith(cs, prefix) ==
    Len(prefix) <= Len(cs) /\ SubSeq(cs, 1, Len(prefix)) = prefix

\* The loop over the prefixes from position k on: the first match returns.
RECURSIVE WithoutPrefixFrom(_, _)
WithoutPrefixFrom(cs, k) ==
    IF k > Len(ISSUING_BODY_MAPPING) THEN cs
    ELSE IF StartsWith(cs, ISSUING_BODY_MAPPING[k])
         THEN SubSeq(cs, Len(ISSUING_BODY_MAPPING[k]) + 1, Len(cs))
         ELSE WithoutPrefixFrom(cs, k + 1)

\* Six characters cut off whatever prefix matched.
extract_symbol_without_prefix_SixChars(sym) ==
    IF ~IsStr(sym) THEN sym
    ELSE IF \E k \in DOMAIN ISSUING_BODY_MAPPING : StartsWith(sym.v, ISSUING_BODY_MAPPING[k])
         THEN Str(SubSeq(sym.v, 7, Len(sym.v)))
         ELSE sym

\* extract_symbol_without_prefix(symbol)
extract_symbol_without_prefix(sym) ==
    IF ~IsStr(sym) THEN sym ELSE Str(WithoutPrefixFrom(sym.v, 1))

add_symbol_without_prefix_column(frame) ==
    AddColumns(frame, {"symbol_without_prefix"},
        [i \in DOMAIN frame.rows |->
            [symbol_without_prefix |-> extract_symbol_without_prefix(frame.rows[i].symbol)]])

add_symbol_without_prefix_split(frame) ==
    AddColumns(frame, {"symbol_without_prefix_split", "symbol_without_prefix_split_n"},
        [i \in DOMAIN frame.rows |->
            [symbol_without_prefix_split |->
                 split_symbol_with_separators(frame.rows[i].symbol_without_prefix),
             symbol_without_prefix_split_n |->
                 Len(split_symbol_with_separators(frame.rows[i].symbol_without_prefix))]])

\* The pipe with the symbol split before it is cleaned.
clean_metadata_SplitFirst(frame) ==
    LET shaped == clean_lists_for_postgres(frame, FALSE)
    IN [error |-> shaped.error,
        frame |-> IF shaped.error.raised THEN shaped.frame
                  ELSE add_symbol_without_prefix_split(
                         add_symbol_without_prefix_column(
                           add_is_part_column(
                             disambiguate_document_symbol(
                               add_symbol_split(
                                 explode_document_symbol_column(shaped.frame))))))]

\* clean_metadata(df) from clean_lists_for_postgres on; rename_variables_df
\* and drop_columns have named and dropped columns before, set_column_dtypes
\* changes no value of the columns here.
clean_metadata(frame) ==
    LET shaped == clean_lists_for_postgres(frame, FALSE)
    IN [error |-> shaped.error,
        frame |-> IF shaped.error.raised THEN shaped.frame
                  ELSE add_symbol_without_prefix_split(
                         add_symbol_without_prefix_column(
                           add_is_part_column(
                             add_symbol_split(
                               disambiguate_document_symbol(
                                 explode_document_symbol_column(shaped.frame))))))]

\* The symbols of the records clean_metadata is run on: lower case and
\* trailing whitespace, whitespace inside, brackets, prefixes of the table
\* in both cases, a prefix alone, and whitespace only.
SymbolInterior == <<"A", " ", "1">>
SymbolPart == <<"A", "/", "1", "[", "B", "]">>
SymbolRes == <<"A", "/", "R", "E", "S", "/", "1">>
SymbolResLower == <<" ", "a", "/", "r", "e", "s", "/", "1">>
SymbolHrc == <<"A", "/", "H", "R", "C", "/", "R", "E", "S", "/", "1", "[", "A", "]">>
SymbolPrst == <<"S", "/", "P", "R", "S", "T", "/">>
SymbolBlank == <<" ">>

CleanSymbolCells ==
    {NA, Str(SymbolA), Str(SymbolRes), List(<<>>), List(<<SymbolB>>),
     List(<<SymbolA, SymbolB>>), List(<<SymbolB, SymbolA, SymbolB>>),
     List(<<SymbolInterior, SymbolPart>>), List(<<SymbolResLower, SymbolRes>>),
     List(<<SymbolHrc, SymbolA>>), List(<<SymbolPrst, SymbolBlank>>)}

CleanFrames ==
    {[columns |-> {"proper_title", "symbol", "subject_terms", "raw_json"},
      rows |-> WithRawJson([i \in DOMAIN cells |->
                   [proper_title |-> List(<<TitleT>>), symbol |-> cells[i],
                    subject_terms |-> Str(SubjectX)]])] :
        cells \in SeqsUpTo(CleanSymbolCells, MaxRows)}

InitClean ==
    /\ df \in CleanFrames
    /\ df_in = df
    /\ strict = FALSE
    /\ stage = "raw"
    /\ error = NoError

\* fetch_and_store: df = clean_metadata(df)
CleanMetadata ==
    /\ stage = "raw"
    /\ LET out == clean_metadata(df)
       IN /\ df' = out.frame
          /\ error' = out.error
          /\ stage' = IF out.error.raised THEN "failed" ELSE "clean"
    /\ df_in' = df
    /\ UNCHANGED strict

(***************************************************************************)
(* Fuzzy title matcher: 02_populate_reporting_entities.py                  *)
(* A normalized title is the sequence of its words, title.split().         *)
(***************************************************************************)

\* Most rows of the external roster and of the canonical pool.
MaxDriRows == 2
MaxDbRows == 2

\* db_data[:50], scaled to the pools drawn here (50 in the source).
FallbackPool == 1

\* threshold=0.8, in units of 1/10000.
Threshold == 8000

STOPWORDS == {"the", "of", "and", "to", "a", "in", "for", "on", "by", "report",
              "secretary-general", "secretarygeneral", "general", "united", "nations"}

\* get_title_words(title)
get_title_words(title) == ToSet(title) \ STOPWORDS

\* round(score, 3) in units of 1/1000; no score drawn here lies half-way.
Round3(score) == IF score % 10 < 5 THEN score \div 10 ELSE score \div 10 + 1

\* The titles of the roster in the order groupby("norm_title") sorts them.
DriTitleEmpty == <<>>
DriTitlePeace == <<"peace", "women">>
DriTitleYouth == <<"youth">>
SortedDriTitles == <<DriTitleEmpty, DriTitlePeace, DriTitleYouth>>

DbTitlePeaceReport == <<"peace", "women", "report">>
DbTitlePeaceYouth == <<"peace", "youth">>
DbTitleWomenPeace == <<"women", "peace">>
DbTitles == <<DbTitlePeaceReport, DbTitlePeaceYouth, DbTitleWomenPeace>>

\* valid_entities as load_valid_entities returns it.
valid_entities == {"DPPA", "OCHA"}

\* fuzzy_match_score(s1, s2): the ratio is the library's; the table fixed at
\* the start gives each pair of titles one score in [0, 1].
fuzzy_match_score(s1, s2) == ratio[<<s1, s2>>]

\* dri_df.groupby("norm_title").agg({"ENTITY": "first", "DOCUMENT TITLE":
\* "first"}).reset_index(): one row per title, in sorted order of the title.
FirstRowWith(rows, title) ==
    rows[CHOOSE i \in DOMAIN rows :
            /\ rows[i].norm_title = title
            /\ \A j \in DOMAIN rows : rows[j].norm_title = title => i <= j]

TitleOccurs(rows, title) == \E i \in DOMAIN rows : rows[i].norm_title = title

RECURSIVE GroupedFrom(_, _)
GroupedFrom(rows, k) ==
    IF k > Len(SortedDriTitles) THEN <<>>
    ELSE (IF TitleOccurs(rows, SortedDriTitles[k])
          THEN <<FirstRowWith(rows, SortedDriTitles[k])>>
          ELSE <<>>) \o GroupedFrom(rows, k + 1)

dri_grouped == GroupedFrom(dri_df, 1)

\* db_data: (proper_title, norm_title, words, symbol) per row of db_df.
db_data ==
    [i \in DOMAIN db_df |->
        [proper_title |-> db_df[i].proper_title, norm_title |-> db_df[i].norm_title,
         words |-> get_title_words(db_df[i].norm_title), symbol |-> db_df[i].symbol]]

RECURSIVE Filter(_, _)
Filter(rows, keep) ==
    IF rows = <<>> THEN <<>>
    ELSE (IF Head(rows) \in keep THEN <<Head(rows)>> ELSE <<>>) \o Filter(Tail(rows), keep)

\* Every row of the pool a candidate.
Candidates_WholePool(dri_title) == db_data

\* The candidates of a title: the pool rows sharing 2 significant words with
\* it, or the first rows of the pool when there is none.
Candidates(dri_title) ==
    LET dri_words == get_title_words(dri_title)
        sharing == Filter(db_data,
                          {r \in ToSet(db_data) : Cardinality(dri_words \cap r.words) >= 2})
    IN IF sharing # <<>> THEN sharing
       ELSE SubSeq(db_data, 1, IF Len(db_data) < FallbackPool THEN Len(db_data)
                                ELSE FallbackPool)

NoBest == [score |-> 0, found |-> FALSE]

\* The loop over the candidates: a strictly higher score replaces the best.
RECURSIVE BestFrom(_, _, _)
BestFrom(dri_title, candidates, best) ==
    IF candidates = <<>> THEN best
    ELSE LET c == Head(candidates)
             score == fuzzy_match_score(dri_title, c.norm_title)
         IN BestFrom(dri_title, Tail(candidates),
                     IF score > best.score
                     THEN [score |-> score, found |-> TRUE,
                           proper_title |-> c.proper_title, symbol |-> c.symbol,
                           db_title |-> c.norm_title]
                     ELSE best)

BestMatch(dri_title) == BestFrom(dri_title, Candidates(dri_title), NoBest)

\* The comparison made on the score rounded to 3 decimals.
ScoreAccepted_Rounded(best_score) == Round3(best_score) * 10 >= Threshold

\* best_score >= threshold
ScoreAccepted(best_score) == best_score >= Threshold

\* The position of a key in the dict, 0 if absent.
KeyIndex(matches, proper_title, entity) ==
    IF \E k \in DOMAIN matches :
          matches[k].proper_title = proper_title /\ matches[k].entity = entity
    THEN CHOOSE k \in DOMAIN matches :
          matches[k].proper_title = proper_title /\ matches[k].entity = entity
    ELSE 0

\* The body of the loop for one row of dri_grouped: the dict it leaves.
MatchRow(matches, row) ==
    LET best == BestMatch(row.norm_title)
    IN IF row.norm_title = <<>> \/ row.ENTITY = ""
       THEN matches
       ELSE IF row.ENTITY \notin valid_entities
       THEN matches
       ELSE IF ~(ScoreAccepted(best.score) /\ best.found)
       THEN matches
       ELSE LET k == KeyIndex(matches, best.proper_title, row.ENTITY)
                entry == [proper_title |-> best.proper_title, entity |-> row.ENTITY,
                          score |-> best.score, dri_title |-> row.DOCUMENT_TITLE,
                          matched_symbol |-> best.symbol,
                          matched_db_title |-> best.db_title]
            IN IF k = 0 THEN Append(matches, entry)
               ELSE IF matches[k].score < best.score
                    THEN [matches EXCEPT ![k] = entry]
                    ELSE matches

\* The suggestions list built from the dict, in its insertion order.
Suggestions(matches) ==
    [k \in DOMAIN matches |->
        [proper_title |-> matches[k].proper_title, entity |-> matches[k].entity,
         confidence_score |-> Round3(matches[k].score),
         match_details |-> [dri_title |-> matches[k].dri_title,
                            matched_symbol |-> matches[k].matched_symbol,
                            fuzzy_score |-> Round3(matches[k].score)]]]

\* The inputs: the entities a roster row can name, the rows of the roster
\* (row i carries the i-th spelling of its title) and the reports of the pool.
DriEntities == {"", "DPPA", "OCHA", "XX"}

DriRowChoices == [norm_title : ToSet(SortedDriTitles), ENTITY : DriEntities]

DriFrame(choices) ==
    [i \in DOMAIN choices |->
        [norm_title |-> choices[i].norm_title, ENTITY |-> choices[i].ENTITY,
         DOCUMENT_TITLE |-> [words |-> choices[i].norm_title, spelling |-> i]]]

DbReports ==
    {[proper_title |-> "P1", norm_title |-> DbTitlePeaceReport],
     [proper_title |-> "P2", norm_title |-> DbTitlePeaceYouth],
     [proper_title |-> "P1", norm_title |-> DbTitleWomenPeace]}

DbFrame(pool) ==
    [i \in DOMAIN pool |->
        [proper_title |-> pool[i].proper_title, norm_title |-> pool[i].norm_title,
         symbol |-> <<"S", ToString(i)>>]]

\* The scores the tables are made of: the threshold, its two neighbours of
\* which the lower rounds to 0.800, and values far from it.
ScoreValues == <<0, 5000, 7996, Threshold, 8004, 10000>>

TitleIndex(titles, t) == CHOOSE k \in DOMAIN titles : titles[k] = t

\* The score tables: table k gives the pair (d, b) the value at place
\* k + 2 * index(d) + index(b) of ScoreValues, taken cyclically, so that over
\* the tables every pair takes every value.
RatioTable(k) ==
    [pair \in ToSet(SortedDriTitles) \X ToSet(DbTitles) |->
        ScoreValues[((k + 2 * TitleIndex(SortedDriTitles, pair[1])
                        + TitleIndex(DbTitles, pair[2])) % Len(ScoreValues)) + 1]]

RatioTables == {RatioTable(k) : k \in 1..Len(ScoreValues)}

InitFuzzy ==
    /\ dri_df \in {DriFrame(c) : c \in SeqsUpTo(DriRowChoices, MaxDriRows)}
    /\ db_df \in {DbFrame(r) : r \in SeqsUpTo(DbReports, MaxDbRows)}
    /\ ratio \in RatioTables
    /\ row_i = 0
    /\ proper_title_matches = <<>>
    /\ dri_suggestions = NoResult

IdleFuzzy ==
    /\ dri_df = <<>>
    /\ db_df = <<>>
    /\ ratio = <<>>
    /\ row_i = 0
    /\ proper_title_matches = <<>>
    /\ dri_suggestions = NoResult

\* One pass of "for i, row in dri_grouped.iterrows()".
MatchDriRow ==
    /\ ~dri_suggestions.called
    /\ row_i < Len(dri_grouped)
    /\ proper_title_matches' = MatchRow(proper_title_matches, dri_grouped[row_i + 1])
    /\ row_i' = row_i + 1
    /\ UNCHANGED <<dri_df, db_df, ratio, dri_suggestions>>

\* After the loop: the dict is converted and the list returned.
ReturnSuggestions ==
    /\ ~dri_suggestions.called
    /\ row_i = Len(dri_grouped)
    /\ dri_suggestions' = [called |-> TRUE, rows |-> Suggestions(proper_title_matches)]
    /\ UNCHANGED <<dri_df, db_df, ratio, row_i, proper_title_matches>>

(***************************************************************************)
(* Canonical store writer: store_documents_in_db of 01_get_reports.py      *)
(* Of the columns written, symbol, subject_terms and raw_json are kept:    *)
(* a string, a list and a dict column; all go through convert_value.       *)
(***************************************************************************)

\* Most rows of a batch and most ingestions of it.
MaxBatchRows == 3
MaxRuns == 2

\* batch_size, scaled to the batches drawn here (100 in the source).
batch_size == 2

\* Python's None, SQL's NULL.
None == [k |-> "none", v |-> <<>>]

\* The character chr(0).
NUL == "NUL"

IntValue(digits) == [k |-> "int", v |-> digits]

ParseFailed == [ok |-> FALSE]

\* An integer literal: digits without a leading zero, or zeros only.
IsIntLiteral(cs) ==
    /\ cs # <<>>
    /\ \A i \in DOMAIN cs : cs[i] \in Digits
    /\ cs[1] # "0" \/ \A i \in DOMAIN cs : cs[i] = "0"

\* ast.literal_eval(val) of a string that starts with "[" and ends with "]",
\* over the characters drawn here (letters, digits, "/", brackets, chr(0)):
\* the empty list, a list of one integer or of one such list; anything else
\* raises ValueError or SyntaxError.
RECURSIVE literal_eval(_)
literal_eval(val) ==
    IF Len(val) < 2 \/ val[1] # "[" \/ val[Len(val)] # "]" THEN ParseFailed
    ELSE LET inner == SubSeq(val, 2, Len(val) - 1)
         IN IF inner = <<>> THEN [ok |-> TRUE, value |-> List(<<>>)]
            ELSE IF IsIntLiteral(inner) THEN [ok |-> TRUE, value |-> List(<<IntValue(inner)>>)]
            ELSE IF literal_eval(inner).ok
                 THEN [ok |-> TRUE, value |-> List(<<literal_eval(inner).value>>)]
                 ELSE ParseFailed

RECURSIVE StripNul(_)
StripNul(cs) ==
    IF cs = <<>> THEN <<>>
    ELSE (IF Head(cs) = NUL THEN <<>> ELSE <<Head(cs)>>) \o StripNul(Tail(cs))

\* val.replace("\x00", "")
StrValue(cs) == Str(StripNul(cs))

\* convert_value(val)
convert_value(val) ==
    IF val.k = "dict" THEN val
    ELSE IF IsList(val) THEN (IF val.v # <<>> THEN val ELSE None)
    ELSE IF IsStr(val) /\ Len(val.v) >= 1 /\ val.v[1] = "[" /\ val.v[Len(val.v)] = "]"
            /\ literal_eval(val.v).ok
         THEN (IF literal_eval(val.v).value.v # <<>> THEN literal_eval(val.v).value ELSE None)
    ELSE IF IsNA(val) THEN None
    ELSE StrValue(val.v)

\* pd.isna(symbol) or not symbol
SkippedSymbol(sym) == IsNA(sym) \/ sym = Str(<<>>)

\* The loop over df.iterrows(): one tuple per row that is not skipped.
RECURSIVE AssembledFrom(_, _)
AssembledFrom(frame, i) ==
    IF i > Len(frame) THEN <<>>
    ELSE (IF SkippedSymbol(frame[i].symbol) THEN <<>>
          ELSE <<[symbol |-> convert_value(frame[i].symbol),
                  subject_terms |-> convert_value(frame[i].subject_terms),
                  raw_json |-> convert_value(frame[i].raw_json)]>>)
         \o AssembledFrom(frame, i + 1)

\* sorted(seen_symbols.values()): the index of the last tuple of each symbol.
KeptIndexes(tuples) ==
    {i \in DOMAIN tuples : \A j \in DOMAIN tuples : tuples[j].symbol = tuples[i].symbol => j <= i}

RECURSIVE AtIndexes(_, _, _)
AtIndexes(tuples, keep, i) ==
    IF i > Len(tuples) THEN <<>>
    ELSE (IF i \in keep THEN <<tuples[i]>> ELSE <<>>) \o AtIndexes(tuples, keep, i + 1)

\* rows = [rows[i] for i in sorted(seen_symbols.values())]
DeduplicateBySymbol(tuples) == AtIndexes(tuples, KeptIndexes(tuples), 1)

\* seen_symbols[row[symbol_idx]] = i raises TypeError for a list: unhashable.
Unhashable(tuples) == \E i \in DOMAIN tuples : IsList(tuples[i].symbol)

TypeError == [raised |-> TRUE, type |-> "TypeError"]
IntegrityError == [raised |-> TRUE, type |-> "IntegrityError"]

\* What psycopg2 raises when the server or the connection fails.
OperationalError == [raised |-> TRUE, type |-> "OperationalError"]

\* The record of an ingestion: the table it found, how it ended, and the
\* offset of the page that failed.
Started(table) == [before |-> table, outcome |-> "running", page |-> 0]

Ended(log, outcome, at) ==
    [log EXCEPT ![Len(log)] = [@ EXCEPT !.outcome = outcome, !.page = at]]

\* The symbol column of the documents table takes no NULL.
ViolatesNotNull(page) == \E i \in DOMAIN page : page[i].symbol = None

\* A page that runs to the end of the rows.
Page_ToEnd(tuples, i) == SubSeq(tuples, i + 1, Len(tuples))

\* batch = rows[i:i + batch_size]
Page(tuples, i) ==
    SubSeq(tuples, i + 1, IF i + batch_size < Len(tuples) THEN i + batch_size ELSE Len(tuples))

\* An update that appends the new list to the stored one.
UpdatedListColumn_Appended(old, new) ==
    IF IsList(old) /\ IsList(new) THEN List(old.v \o new.v) ELSE new

\* subject_terms = EXCLUDED.subject_terms
UpdatedListColumn(old, new) == new

\* INSERT ... VALUES one tuple ON CONFLICT (symbol) DO UPDATE SET every other
\* column = EXCLUDED.column, updated_at = NOW(); an inserted row leaves
\* updated_at to the column default, written 0.
UpsertRow(table, tuple, now) ==
    IF tuple.symbol \in DOMAIN table
    THEN [table EXCEPT ![tuple.symbol] =
             [subject_terms |-> UpdatedListColumn(@.subject_terms, tuple.subject_terms),
              raw_json |-> tuple.raw_json,
              updated_at |-> now]]
    ELSE [key \in DOMAIN table \cup {tuple.symbol} |->
             IF key = tuple.symbol
             THEN [subject_terms |-> tuple.subject_terms,
                   raw_json |-> tuple.raw_json,
                   updated_at |-> 0]
             ELSE table[key]]

\* execute_values(cur, insert_query, batch, page_size=batch_size)
RECURSIVE UpsertPage(_, _, _)
UpsertPage(table, page, now) ==
    IF page = <<>> THEN table
    ELSE UpsertPage(UpsertRow(table, Head(page), now), Tail(page), now)

\* The inputs: symbols as the cleaning can leave them, the list column, the
\* payload of the i-th record.
StoreSymbolA == <<"A", "/", "1">>
StoreSymbols ==
    {StoreSymbolA,
     <<NUL, "A", "/", "1">>,
     <<"[", "A", "/", "1", "]">>,
     <<"[", "]">>,
     <<"[", "1", "]">>,
     <<NUL>>,
     <<>>}

StoreSymbolCells == {NA} \cup {Str(sym) : sym \in StoreSymbols}

StoreListCells == {List(<<>>), List(<<SubjectX>>)}

BatchChoices == [symbol : StoreSymbolCells, subject_terms : StoreListCells]

BatchFrame(choices) ==
    [i \in DOMAIN choices |->
        [symbol |-> choices[i].symbol, subject_terms |-> choices[i].subject_terms,
         raw_json |-> RawJson(i)]]

EmptyTable == [key \in {} |-> None]

\* The table before the ingestion: empty, or holding an earlier version of
\* one of the documents.
StoredBefore ==
    {EmptyTable,
     [key \in {Str(StoreSymbolA)} |->
         [subject_terms |-> List(<<SubjectX, SubjectX>>), raw_json |-> RawJson(0),
          updated_at |-> 0]]}

InitStore ==
    /\ batch \in {BatchFrame(c) : c \in SeqsUpTo(BatchChoices, MaxBatchRows)}
    /\ documents \in StoredBefore
    /\ store_rows = <<>>
    /\ store_pc = "start"
    /\ page_i = 0
    /\ clock = 1
    /\ store_run = 1
    /\ documents_first = EmptyTable
    /\ store_error = NoError
    /\ store_log = <<>>

IdleStore ==
    /\ batch = <<>>
    /\ documents = EmptyTable
    /\ store_rows = <<>>
    /\ store_pc = "start"
    /\ page_i = 0
    /\ clock = 1
    /\ store_run = 1
    /\ documents_first = EmptyTable
    /\ store_error = NoError
    /\ store_log = <<>>

\* store_documents_in_db up to the connection: the tuples are assembled and
\* deduplicated by symbol, or the deduplication raises.
AssembleRows ==
    /\ store_pc = "start"
    /\ LET tuples == AssembledFrom(batch, 1)
       IN IF Unhashable(tuples)
          THEN /\ store_rows' = <<>>
               /\ store_pc' = "failed"
               /\ store_error' = TypeError
          ELSE /\ store_rows' = DeduplicateBySymbol(tuples)
               /\ store_pc' = "writing"
               /\ store_error' = NoError
    /\ page_i' = 0
    /\ store_log' = Ended(Append(store_log, Started(documents)),
                          IF Unhashable(AssembledFrom(batch, 1)) THEN "failed" ELSE "running", 0)
    /\ UNCHANGED <<batch, documents, clock, store_run, documents_first>>

\* One pass of the loop over the pages: the page is written and committed, or
\* the statement or the commit fails (a constraint, or the server being
\* down), the transaction is rolled back and the error raised.
WritePage ==
    /\ store_pc = "writing"
    /\ page_i < Len(store_rows)
    /\ \E server_up \in BOOLEAN :
          IF ~server_up \/ ViolatesNotNull(Page(store_rows, page_i))
          THEN /\ store_pc' = "failed"
               /\ store_error' = IF server_up THEN IntegrityError ELSE OperationalError
               /\ store_log' = Ended(store_log, "failed", page_i)
               /\ UNCHANGED <<documents, page_i>>
          ELSE /\ documents' = UpsertPage(documents, Page(store_rows, page_i), clock)
               /\ page_i' = page_i + batch_size
               /\ UNCHANGED <<store_pc, store_error, store_log>>
    /\ clock' = clock + 1
    /\ UNCHANGED <<batch, store_rows, store_run, documents_first>>

\* After the last page: count = len(store_rows) is returned.
ReturnCount ==
    /\ store_pc = "writing"
    /\ page_i >= Len(store_rows)
    /\ store_pc' = "done"
    /\ store_log' = Ended(store_log, "done", page_i)
    /\ UNCHANGED <<batch, store_rows, page_i, documents, clock, store_run, documents_first, store_error>>

\* The same batch is ingested again.
IngestAgain ==
    /\ store_pc \in {"done", "failed"}
    /\ store_run < MaxRuns
    /\ store_run' = store_run + 1
    /\ documents_first' = IF store_run = 1 THEN documents ELSE documents_first
    /\ store_pc' = "start"
    /\ store_rows' = <<>>
    /\ page_i' = 0
    /\ store_error' = NoError
    /\ UNCHANGED <<batch, documents, clock, store_log>>

(***************************************************************************)
(* Entity resolver: 02_populate_reporting_entities.py (manual and fuzzy    *)
(* matchers, populate_suggestions_table) and 05_ai_entity_suggestions.py   *)
(* (LLM matcher), both writing the table report_entity_suggestions.       *)
(***************************************************************************)

\* Most rows of the manual roster.
MaxDgacmRows == 2

\* symbol_to_proper_title[symbol] = proper_title for the rows of db_df in
\* order, a later row replacing an earlier one; "" when the symbol is absent.
RECURSIVE LookupFrom(_, _, _)
LookupFrom(frame, sym, i) ==
    IF i = 0 THEN ""
    ELSE IF frame[i].symbol = sym /\ frame[i].symbol # <<>> /\ frame[i].proper_title # ""
         THEN frame[i].proper_title
         ELSE LookupFrom(frame, sym, i - 1)

symbol_to_proper_title(sym) == LookupFrom(db_df, sym, Len(db_df))

\* The loop body without the test of the entity against the vocabulary.
MapDgacmRow_AnyEntity(pairs, row) ==
    LET proper_title == symbol_to_proper_title(row.symbol)
        k == KeyIndex(pairs, proper_title, row.entity)
    IN IF row.symbol = <<>> \/ row.entity = "" \/ proper_title = ""
       THEN pairs
       ELSE IF k = 0
       THEN Append(pairs, [proper_title |-> proper_title, entity |-> row.entity,
                           symbols_matched |-> <<row.symbol>>])
       ELSE [pairs EXCEPT ![k].symbols_matched = Append(@, row.symbol)]

\* The body of the loop of map_dgacm_to_proper_titles for one roster row:
\* the dict proper_title_entities it leaves, a list of pairs in the order of
\* their insertion, each with its symbols_matched.
MapDgacmRow(pairs, row) ==
    LET proper_title == symbol_to_proper_title(row.symbol)
        k == KeyIndex(pairs, proper_title, row.entity)
    IN IF row.symbol = <<>> \/ row.entity = ""
       THEN pairs
       ELSE IF row.entity \notin valid_entities
       THEN pairs
       ELSE IF proper_title = ""
       THEN pairs
       ELSE IF k = 0
       THEN Append(pairs, [proper_title |-> proper_title, entity |-> row.entity,
                           symbols_matched |-> <<row.symbol>>])
       ELSE [pairs EXCEPT ![k].symbols_matched = Append(@, row.symbol)]

RECURSIVE MapDgacmFrom(_, _, _)
MapDgacmFrom(pairs, frame, i) ==
    IF i > Len(frame) THEN pairs
    ELSE MapDgacmFrom(MapDgacmRow(pairs, frame[i]), frame, i + 1)

\* map_dgacm_to_proper_titles(dgacm_df, db_df, valid_entities): the tuples
\* (proper_title, entity, match_details).
map_dgacm_to_proper_titles ==
    LET pairs == MapDgacmFrom(<<>>, dgacm_df, 1)
    IN [k \in DOMAIN pairs |->
           [proper_title |-> pairs[k].proper_title, entity |-> pairs[k].entity,
            match_details |-> [symbols_matched |-> pairs[k].symbols_matched]]]

\* match_dri_to_proper_titles(dri_df, db_df, valid_entities, 0.8) run to its
\* end: the loop over dri_grouped, then the conversion of the dict.
RECURSIVE MatchDriFrom(_, _)
MatchDriFrom(matches, i) ==
    IF i > Len(dri_grouped) THEN matches
    ELSE MatchDriFrom(MatchRow(matches, dri_grouped[i]), i + 1)

match_dri_to_proper_titles == Suggestions(MatchDriFrom(<<>>, 1))

\* The rows of a table with the key (proper_title, entity, source) of a row;
\* the table is a bag of rows, as nothing in a table tells two equal rows
\* apart.
RowsWithKey(table, row) ==
    {r \in BagToSet(table) :
        /\ r.proper_title = row.proper_title
        /\ r.entity = row.entity
        /\ r.source = row.source}

\* An INSERT that takes no notice of the key.
InsertSuggestion_NoConflictTarget(table, row) == table (+) SetToBag({row})

\* INSERT INTO report_entity_suggestions ... ON CONFLICT (proper_title,
\* entity, source) DO UPDATE SET confidence_score, match_details. For a
\* 'dgacm' row the score set is the NULL it had.
InsertSuggestion(table, row) ==
    IF RowsWithKey(table, row) = {} THEN table (+) SetToBag({row})
    ELSE LET old == CHOOSE r \in RowsWithKey(table, row) : TRUE
         IN (table (-) SetToBag({old}))
               (+) SetToBag({[old EXCEPT !.confidence_score = row.confidence_score,
                                         !.match_details = row.match_details]})

RECURSIVE InsertSuggestions(_, _)
InsertSuggestions(table, new_rows) ==
    IF new_rows = <<>> THEN table
    ELSE InsertSuggestions(InsertSuggestion(table, Head(new_rows)), Tail(new_rows))

\* A value of the column confidence_score, in 1/1000.
Score(thousandths) == [k |-> "float", v |-> <<thousandths>>]

\* dgacm_values and dri_values of populate_suggestions_table.
dgacm_values(dgacm_suggestions) ==
    [k \in DOMAIN dgacm_suggestions |->
        [proper_title |-> dgacm_suggestions[k].proper_title,
         entity |-> dgacm_suggestions[k].entity, source |-> "dgacm",
         confidence_score |-> None,
         match_details |-> dgacm_suggestions[k].match_details]]

dri_values(suggestions) ==
    [k \in DOMAIN suggestions |->
        [proper_title |-> suggestions[k].proper_title,
         entity |-> suggestions[k].entity, source |-> "dri",
         confidence_score |-> Score(suggestions[k].confidence_score),
         match_details |-> suggestions[k].match_details]]

\* The two INSERTs without the TRUNCATE before them.
populate_suggestions_table_NoTruncate(table, dgacm_suggestions, suggestions) ==
    InsertSuggestions(InsertSuggestions(table, dgacm_values(dgacm_suggestions)),
                      dri_values(suggestions))

\* populate_suggestions_table: TRUNCATE, the two INSERTs, one commit.
populate_suggestions_table(table, dgacm_suggestions, suggestions) ==
    InsertSuggestions(InsertSuggestions(EmptyBag, dgacm_values(dgacm_suggestions)),
                      dri_values(suggestions))

\* The rows of the view sg_reports the LLM matcher reads: one per
\* proper_title after DISTINCT ON, in the order of the title.
SgReports ==
    <<[proper_title |-> "P1", symbol |-> <<"S", "1">>, text_length |-> 100],
      [proper_title |-> "P2", symbol |-> <<"S", "2">>, text_length |-> 5000],
      [proper_title |-> "P3", symbol |-> <<"S", "3">>, text_length |-> 99]>>

\* A proper_title has a row of source 'ai' in the table.
HasAiRow(table, proper_title) ==
    \E r \in BagToSet(table) : r.proper_title = proper_title /\ r.source = "ai"

\* get_reports_to_classify(skip_existing=skip): the WHERE clause and the
\* LEFT JOIN ... s.id IS NULL.
RECURSIVE ReportsFrom(_, _, _)
ReportsFrom(table, skip, i) ==
    IF i > Len(SgReports) THEN <<>>
    ELSE (IF SgReports[i].text_length >= 100
             /\ ~(skip /\ HasAiRow(table, SgReports[i].proper_title))
          THEN <<[proper_title |-> SgReports[i].proper_title, symbol |-> SgReports[i].symbol]>>
          ELSE <<>>) \o ReportsFrom(table, skip, i + 1)

get_reports_to_classify(table, skip) == ReportsFrom(table, skip, 1)

\* What the collaborator can answer: the parsed suggestions of a response.
LlmSuggestions ==
    {<<>>,
     <<[entity |-> "DPPA", confidence |-> "high"]>>,
     <<[entity |-> "DPPA", confidence |-> "low"]>>}

NoFile == [exists |-> FALSE]
Pending == [returned |-> FALSE]

\* The dict classify_report_entity builds from an answer or an exception.
Classified(report, suggestions) ==
    [returned |-> TRUE, proper_title |-> report.proper_title, symbol |-> report.symbol,
     success |-> TRUE, suggestions |-> suggestions]

\* A failure reported as a success without suggestions.
ClassificationFailed_AsSuccess(report) ==
    [returned |-> TRUE, proper_title |-> report.proper_title, symbol |-> report.symbol,
     success |-> TRUE, suggestions |-> <<>>]

ClassificationFailed(report) ==
    [returned |-> TRUE, proper_title |-> report.proper_title, symbol |-> report.symbol,
     success |-> FALSE, suggestions |-> <<>>]

\* The cache lookup at the head of classify_report_entity: the content of
\* the file the hash of "title:symbol" names, if it exists.
CacheLookup(files, bucket) == IF files[bucket].exists THEN files[bucket].content ELSE Pending

\* conf_map = {"high": 0.9, "medium": 0.7, "low": 0.5}, in 1/1000.
conf_map(confidence) ==
    IF confidence = "high" THEN 900 ELSE IF confidence = "medium" THEN 700 ELSE 500

\* The rows store_suggestions writes for one result, none unless it succeeded.
AiRows(result) ==
    IF ~result.success THEN <<>>
    ELSE [k \in DOMAIN result.suggestions |->
             [proper_title |-> result.proper_title,
              entity |-> result.suggestions[k].entity, source |-> "ai",
              confidence_score |-> Score(conf_map(result.suggestions[k].confidence)),
              match_details |-> [confidence_level |-> result.suggestions[k].confidence,
                                 symbol |-> result.symbol]]]

\* store_suggestions(results): the table after the loop and the commit.
RECURSIVE store_suggestions(_, _, _)
store_suggestions(table, rs, i) ==
    IF i > Len(rs) THEN table
    ELSE store_suggestions(InsertSuggestions(table, AiRows(rs[i])), rs, i + 1)

\* The files .cache/entity_suggestions/NNNN.json a hash can name, scaled
\* (10000 in the source).
Buckets == {0, 1}

\* The titles get_reports_to_classify can return.
EligibleTitles ==
    {SgReports[i].proper_title : i \in {j \in DOMAIN SgReports : SgReports[j].text_length >= 100}}

\* hash(f"{proper_title}:{symbol}") % 10000 for the reports of a process:
\* str hashes are salted per process (PYTHONHASHSEED), and distinct strings
\* may share a remainder.
HashFunctions == {h \in [EligibleTitles -> Buckets] : \E t \in EligibleTitles : h[t] = 0}

NotCalled == [called |-> FALSE]
Raised == [called |-> TRUE, raised |-> TRUE]
Answered(payload) == [called |-> TRUE, raised |-> FALSE, payload |-> payload]

\* The rosters and the pool the manual and fuzzy matchers are run on here.
SymbolS1 == <<"S", "1">>
SymbolS2 == <<"S", "2">>
SymbolS9 == <<"S", "9">>

\* The manual roster names the two symbols of the pool, which carry one
\* proper_title; the fuzzy roster has two titles for one entity.
DgacmRowChoices ==
    {[symbol |-> SymbolS1, entity |-> "DPPA"],
     [symbol |-> SymbolS2, entity |-> "DPPA"]}

ResolverDriFrame ==
    DriFrame(<<[norm_title |-> DriTitlePeace, ENTITY |-> "DPPA"],
               [norm_title |-> DriTitleYouth, ENTITY |-> "DPPA"]>>)

ResolverDbFrame ==
    DbFrame(<<[proper_title |-> "P1", norm_title |-> DbTitlePeaceReport],
              [proper_title |-> "P1", norm_title |-> DbTitleWomenPeace]>>)

InitResolver ==
    /\ dgacm_df \in SeqsUpTo(DgacmRowChoices, MaxDgacmRows)
    /\ dgacm_result = NoResult
    /\ dri_df = ResolverDriFrame
    /\ db_df = ResolverDbFrame
    /\ ratio = RatioTable(2)
    /\ row_i = 0
    /\ proper_title_matches = <<>>
    /\ dri_suggestions = NoResult
    /\ report_entity_suggestions = EmptyBag
    /\ cache_files = [b \in Buckets |-> NoFile]
    /\ bucket_of = <<>>
    /\ reports = <<>>
    /\ results = <<>>
    /\ responses = <<>>
    /\ skip_existing = TRUE
    /\ resolver_pc = "idle"

IdleResolver ==
    /\ dgacm_df = <<>>
    /\ dgacm_result = NoResult
    /\ report_entity_suggestions = <<>>
    /\ cache_files = <<>>
    /\ bucket_of = <<>>
    /\ reports = <<>>
    /\ results = <<>>
    /\ responses = <<>>
    /\ skip_existing = TRUE
    /\ resolver_pc = "off"

\* main of 02_populate_reporting_entities.py on the rosters and the pool:
\* both matchers run, and the table is truncated and repopulated in one
\* transaction.
PopulateReportingEntities ==
    /\ resolver_pc \in {"idle", "stored", "interrupted", "populated"}
    /\ report_entity_suggestions' =
          populate_suggestions_table(report_entity_suggestions,
                                     map_dgacm_to_proper_titles,
                                     match_dri_to_proper_titles)
    /\ resolver_pc' = "populated"
    /\ reports' = <<>>
    /\ results' = <<>>
    /\ responses' = <<>>
    /\ UNCHANGED <<cache_files, bucket_of, skip_existing, dgacm_df, dgacm_result, fuzzyVars>>

\* main_async of 05_ai_entity_suggestions.py up to the first answer: a new
\* process (new hash salt) selects the reports, and every task of the gather
\* looks its cache file up before any request is answered.
StartClassificationWith(skip) ==
    /\ resolver_pc \in {"idle", "stored", "interrupted", "populated"}
    /\ \E h \in HashFunctions :
          LET selected == get_reports_to_classify(report_entity_suggestions, skip)
          IN /\ skip_existing' = skip
             /\ bucket_of' = h
             /\ reports' = selected
             /\ results' = [i \in DOMAIN selected |->
                               CacheLookup(cache_files, h[selected[i].proper_title])]
             /\ responses' = [i \in DOMAIN selected |-> NotCalled]
             /\ resolver_pc' = IF selected = <<>> THEN "stored" ELSE "classifying"
    /\ UNCHANGED <<report_entity_suggestions, cache_files, dgacm_df, dgacm_result, fuzzyVars>>

\* main(limit, skip_existing), with or without --reprocess.
StartClassification == \E skip \in BOOLEAN : StartClassificationWith(skip)

\* The rest of classify_report_entity for one task: the request is answered
\* or raises, the result is built, written to the cache file and returned.
ClassifyReportEntityWith(i, answer) ==
    /\ resolver_pc = "classifying"
    /\ i \in DOMAIN results
    /\ ~results[i].returned
    /\ LET result == IF answer.raised THEN ClassificationFailed(reports[i])
                     ELSE Classified(reports[i], answer.payload)
       IN /\ results' = [results EXCEPT ![i] = result]
          /\ responses' = [responses EXCEPT ![i] = answer]
          /\ cache_files' = [cache_files EXCEPT ![bucket_of[reports[i].proper_title]] =
                                [exists |-> TRUE, content |-> result]]
    /\ UNCHANGED <<report_entity_suggestions, bucket_of, reports, skip_existing, resolver_pc,
                   dgacm_df, dgacm_result, fuzzyVars>>

ClassifyReportEntity ==
    \E i \in DOMAIN SgReports : \E answer \in {Raised} \cup {Answered(s) : s \in LlmSuggestions} :
        ClassifyReportEntityWith(i, answer)

\* The gather has returned: store_suggestions(results) and its commit.
StoreSuggestions ==
    /\ resolver_pc = "classifying"
    /\ \A i \in DOMAIN results : results[i].returned
    /\ report_entity_suggestions' = store_suggestions(report_entity_suggestions, results, 1)
    /\ resolver_pc' = "stored"
    /\ UNCHANGED <<cache_files, bucket_of, reports, results, responses, skip_existing,
                   dgacm_df, dgacm_result, fuzzyVars>>

\* The process is killed while the gather is running: nothing is stored.
InterruptClassification ==
    /\ resolver_pc = "classifying"
    /\ resolver_pc' = "interrupted"
    /\ reports' = <<>>
    /\ results' = <<>>
    /\ responses' = <<>>
    /\ UNCHANGED <<report_entity_suggestions, cache_files, bucket_of, skip_existing,
                   dgacm_df, dgacm_result, fuzzyVars>>

\* ---- map_dgacm_to_proper_titles run alone on rosters of every kind

\* The rows a manual roster is made of: symbols of the pool, a symbol absent
\* from it and the empty string, with entities of the vocabulary, an entity
\* outside it and the empty string.
DgacmRosterRows ==
    [symbol : {SymbolS1, SymbolS2, SymbolS9, <<>>}, entity : {"DPPA", "OCHA", "XX", ""}]

\* The pools: the two symbols under one proper_title, or under two.
DgacmPools ==
    {ResolverDbFrame,
     DbFrame(<<[proper_title |-> "P1", norm_title |-> DbTitlePeaceReport],
               [proper_title |-> "P2", norm_title |-> DbTitlePeaceYouth]>>)}

InitDgacm ==
    /\ dgacm_df \in SeqsUpTo(DgacmRosterRows, MaxDgacmRows)
    /\ db_df \in DgacmPools
    /\ dgacm_result = NoResult
    /\ dri_df = <<>>
    /\ ratio = <<>>
    /\ row_i = 0
    /\ proper_title_matches = <<>>
    /\ dri_suggestions = NoResult
    /\ report_entity_suggestions = <<>>
    /\ cache_files = <<>>
    /\ bucket_of = <<>>
    /\ reports = <<>>
    /\ results = <<>>
    /\ responses = <<>>
    /\ skip_existing = TRUE
    /\ resolver_pc = "off"

\* main: dgacm_suggestions = map_dgacm_to_proper_titles(dgacm_df, db_df,
\* valid_entities)
MapDgacmToProperTitles ==
    /\ ~dgacm_result.called
    /\ dgacm_result' = [called |-> TRUE, rows |-> map_dgacm_to_proper_titles]
    /\ UNCHANGED <<dgacm_df, report_entity_suggestions, cache_files, bucket_of, reports,
                   results, responses, skip_existing, resolver_pc, fuzzyVars>>

(***************************************************************************)
(* Mandate extraction: 04_extract_mandate_info.py                          *)
(***************************************************************************)

\* The rows get_resolutions_to_process returns, by symbol.
Resolutions == <<"A/RES/1", "A/RES/2">>

\* What the collaborator can answer: the "mandates" of the JSON object.
MandateParagraphA == [verbatim_paragraph |-> "pa", summary |-> "s1"]
MandateParagraphA2 == [verbatim_paragraph |-> "pa", summary |-> "s2"]
MandateParagraphB == [verbatim_paragraph |-> "pb", summary |-> "s1"]
LlmMandates == {<<>>, <<MandateParagraphA>>, <<MandateParagraphA2, MandateParagraphB>>}

\* The dict extract_mandate_info_llm returns from an answer or an exception.
Extracted(sym, mandates) == [symbol |-> sym, success |-> TRUE, mandates |-> mandates]
ExtractionFailed(sym) == [symbol |-> sym, success |-> FALSE, mandates |-> <<>>]

\* The position of the row of resolution_mandates with the key
\* (resolution_symbol, MD5(verbatim_paragraph)), 0 if there is none.
MandateIndex(table, row) ==
    IF \E k \in DOMAIN table :
          /\ table[k].resolution_symbol = row.resolution_symbol
          /\ table[k].verbatim_paragraph = row.verbatim_paragraph
    THEN CHOOSE k \in DOMAIN table :
          /\ table[k].resolution_symbol = row.resolution_symbol
          /\ table[k].verbatim_paragraph = row.verbatim_paragraph
    ELSE 0

\* INSERT INTO resolution_mandates ... ON CONFLICT (resolution_symbol,
\* MD5(COALESCE(verbatim_paragraph, ''))) DO UPDATE SET summary, ...
InsertMandate(table, row) ==
    IF MandateIndex(table, row) = 0 THEN Append(table, row)
    ELSE [table EXCEPT ![MandateIndex(table, row)] = [@ EXCEPT !.summary = row.summary]]

\* The rows store_mandate_results writes for one result.
MandateRows(result) ==
    IF ~result.success THEN <<>>
    ELSE [k \in DOMAIN result.mandates |->
             [resolution_symbol |-> result.symbol,
              verbatim_paragraph |-> result.mandates[k].verbatim_paragraph,
              summary |-> result.mandates[k].summary]]

RECURSIVE InsertMandates(_, _)
InsertMandates(table, new_rows) ==
    IF new_rows = <<>> THEN table
    ELSE InsertMandates(InsertMandate(table, Head(new_rows)), Tail(new_rows))

\* store_mandate_results(results): the table after the loop and the commit.
RECURSIVE store_mandate_results(_, _, _)
store_mandate_results(table, rs, i) ==
    IF i > Len(rs) THEN table
    ELSE store_mandate_results(InsertMandates(table, MandateRows(rs[i])), rs, i + 1)

InitMandate ==
    /\ mandate_memory = [i \in DOMAIN Resolutions |-> NoFile]
    /\ resolutions = <<>>
    /\ mandate_results = <<>>
    /\ mandate_responses = <<>>
    /\ resolution_mandates = <<>>
    /\ mandate_pc = "idle"

IdleMandate ==
    /\ mandate_memory = <<>>
    /\ resolutions = <<>>
    /\ mandate_results = <<>>
    /\ mandate_responses = <<>>
    /\ resolution_mandates = <<>>
    /\ mandate_pc = "off"

\* main(year_min, limit) up to the loop: the resolutions are loaded and cut
\* to the limit, if one is given.
LoadResolutions ==
    /\ mandate_pc \in {"idle", "stored"}
    /\ \E limit \in 0..Len(Resolutions) :
          resolutions' = IF limit # 0 THEN SubSeq(Resolutions, 1, limit) ELSE Resolutions
    /\ mandate_results' = <<>>
    /\ mandate_responses' = <<>>
    /\ mandate_pc' = "extracting"
    /\ UNCHANGED <<mandate_memory, resolution_mandates>>

\* One pass of the loop of main: extract_mandate_info_llm(symbol, text)
\* under @memory.cache, which keeps whatever dict an earlier call with the
\* same arguments returned; otherwise the request is answered or raises.
ExtractMandateInfoLlm ==
    /\ mandate_pc = "extracting"
    /\ Len(mandate_results) < Len(resolutions)
    /\ LET i == Len(mandate_results) + 1
       IN IF mandate_memory[i].exists
          THEN /\ mandate_results' = Append(mandate_results, mandate_memory[i].content)
               /\ mandate_responses' = Append(mandate_responses, NotCalled)
               /\ UNCHANGED mandate_memory
          ELSE \E answer \in {Raised} \cup {Answered(m) : m \in LlmMandates} :
                  LET result == IF answer.raised THEN ExtractionFailed(resolutions[i])
                                ELSE Extracted(resolutions[i], answer.payload)
                  IN /\ mandate_results' = Append(mandate_results, result)
                     /\ mandate_responses' = Append(mandate_responses, answer)
                     /\ mandate_memory' = [mandate_memory EXCEPT ![i] =
                                              [exists |-> TRUE, content |-> result]]
    /\ UNCHANGED <<resolutions, resolution_mandates, mandate_pc>>

\* After the loop: store_mandate_results(results) and its commit.
StoreMandateResults ==
    /\ mandate_pc = "extracting"
    /\ Len(mandate_results) = Len(resolutions)
    /\ resolution_mandates' = store_mandate_results(resolution_mandates, mandate_results, 1)
    /\ mandate_pc' = "stored"
    /\ UNCHANGED <<mandate_memory, resolutions, mandate_results, mandate_responses>>

(***************************************************************************)
(* Document category: infer_document_category and store_documents_in_db of *)
(* get_reports.py                                                          *)
(***************************************************************************)

\* Most rows of a frame the category is worked out for.
MaxCatRows == 2

\* needle in hay
Contains(hay, needle) ==
    \E i \in 0..(Len(hay) - Len(needle)) : SubSeq(hay, i + 1, i + Len(needle)) = needle

\* " ".join(xs)
RECURSIVE JoinWithSpace(_)
JoinWithSpace(xs) ==
    IF xs = <<>> THEN <<>>
    ELSE IF Len(xs) = 1 THEN xs[1]
    ELSE xs[1] \o <<" ">> \o JoinWithSpace(Tail(xs))

\* s.lower() of an ASCII string.
LowerStr(cs) == [i \in DOMAIN cs |-> Lower(cs[i])]

\* The prefixes of the resolution patterns.
ResolutionPrefixes ==
    {<<"A", "/", "R", "E", "S", "/">>,
     <<"S", "/", "R", "E", "S", "/">>,
     <<"E", "/", "R", "E", "S", "/">>,
     <<"A", "/", "H", "R", "C", "/", "R", "E", "S", "/">>}

WordResolution == <<"r", "e", "s", "o", "l", "u", "t", "i", "o", "n">>
WordReport == <<"r", "e", "p", "o", "r", "t">>
WordLetter == <<"l", "e", "t", "t", "e", "r">>
WordNoteVerbale == <<"n", "o", "t", "e", " ", "v", "e", "r", "b", "a", "l", "e">>
WordOther == <<"o", "t", "h", "e", "r">>

\* The resource type looked at before the symbol.
infer_document_category_TypeFirst(sym, resource_type_level3) ==
    IF sym = <<>> THEN WordOther
    ELSE LET rt3_str == LowerStr(JoinWithSpace(resource_type_level3.v))
         IN IF resource_type_level3 # None /\ resource_type_level3.v # <<>>
                /\ Contains(rt3_str, WordResolution) THEN WordResolution
            ELSE IF resource_type_level3 # None /\ resource_type_level3.v # <<>>
                /\ Contains(rt3_str, WordReport) THEN WordReport
            ELSE IF resource_type_level3 # None /\ resource_type_level3.v # <<>>
                /\ (Contains(rt3_str, WordLetter) \/ Contains(rt3_str, WordNoteVerbale))
                 THEN WordLetter
            ELSE IF \E p \in ResolutionPrefixes : StartsWith(UpperStr(sym), p) THEN WordResolution
            ELSE WordReport

\* infer_document_category(symbol, resource_type_level3): sym is the string,
\* resource_type_level3 a list of strings or None.
infer_document_category(sym, resource_type_level3) ==
    IF sym = <<>> THEN WordOther
    ELSE IF \E p \in ResolutionPrefixes : StartsWith(UpperStr(sym), p) THEN WordResolution
    ELSE IF resource_type_level3 # None /\ resource_type_level3.v # <<>>
         THEN LET rt3_str == LowerStr(JoinWithSpace(resource_type_level3.v))
              IN IF Contains(rt3_str, WordResolution) THEN WordResolution
                 ELSE IF Contains(rt3_str, WordReport) THEN WordReport
                 ELSE IF Contains(rt3_str, WordLetter) \/ Contains(rt3_str, WordNoteVerbale)
                      THEN WordLetter
                 ELSE WordReport
    ELSE WordReport

\* The loop over df.iterrows() of store_documents_in_db: the category of
\* each row that is not skipped; a category passed in is used when truthy.
RECURSIVE CategoriesFrom(_, _, _)
CategoriesFrom(frame, override, i) ==
    IF i > Len(frame) THEN <<>>
    ELSE (IF SkippedSymbol(frame[i].symbol) THEN <<>>
          ELSE <<[symbol |-> frame[i].symbol,
                  document_category |->
                      IF override # None /\ override # <<>> THEN override
                      ELSE infer_document_category(
                               frame[i].symbol.v,
                               IF IsList(frame[i].resource_type_level3)
                               THEN frame[i].resource_type_level3 ELSE None)]>>)
         \o CategoriesFrom(frame, override, i + 1)

\* The symbols and the resource types of the rows.
CatSymbolCells ==
    {NA, Str(<<>>),
     Str(<<"A", "/", "R", "E", "S", "/", "1">>),
     Str(<<"s", "/", "r", "e", "s", "/", "1">>),
     Str(<<"E", "/", "R", "E", "S", "/", "1">>),
     Str(<<"A", "/", "H", "R", "C", "/", "R", "E", "S", "/", "1">>),
     Str(<<"A", "/", "H", "R", "C", "/", "1">>)}

TypeResolutions == <<"R", "e", "s", "o", "l", "u", "t", "i", "o", "n", "s">>
TypeReports == <<"R", "e", "p", "o", "r", "t", "s">>
TypeLetters == <<"L", "e", "t", "t", "e", "r", "s">>
TypeNote == <<"N", "o", "t", "e">>
TypeVerbale == <<"V", "e", "r", "b", "a", "l", "e">>
TypeMaps == <<"M", "a", "p", "s">>

ResourceTypeCells ==
    {NA, Str(TypeLetters), List(<<TypeResolutions>>), List(<<TypeReports>>),
     List(<<TypeLetters>>), List(<<TypeNote, TypeVerbale>>),
     List(<<TypeLetters, TypeReports>>), List(<<TypeReports, TypeResolutions>>),
     List(<<TypeMaps>>)}

\* The override: none, the empty string, or the one main passes for the
\* resolutions it stores.
CategoryOverrides == {None, <<>>, WordResolution}

InitCategory ==
    /\ cat_df \in SeqsUpTo([symbol : CatSymbolCells, resource_type_level3 : ResourceTypeCells],
                           MaxCatRows)
    /\ document_category \in CategoryOverrides
    /\ cats = NoResult

IdleCategory ==
    /\ cat_df = <<>>
    /\ document_category = None
    /\ cats = NoResult

\* store_documents_in_db(df, document_category) up to the tuples.
StoreDocumentCategories ==
    /\ ~cats.called
    /\ cats' = [called |-> TRUE, rows |-> CategoriesFrom(cat_df, document_category, 1)]
    /\ UNCHANGED <<cat_df, document_category>>

(***************************************************************************)
(* Metadata pager: get_reports_metadata of 01_get_reports.py and of        *)
(* get_reports.py (the two differ in limit only: 20 and 100)               *)
(***************************************************************************)

\* limit, scaled to the pages drawn here.
limit == 2

\* Most full pages the collaborator holds: from then on it answers with a
\* short or an empty page.
MaxPages == 5

\* The default of the argument start_date.
start_date == 2024

DigitChars == <<"0", "1", "2", "3", "4", "5", "6", "7", "8", "9">>

\* str(n) of a non-negative integer.
RECURSIVE IntToStr(_)
IntToStr(n) ==
    IF n < 10 THEN <<DigitChars[n + 1]>>
    ELSE IntToStr(n \div 10) \o <<DigitChars[(n % 10) + 1]>>

\* ord(c) as far as the order of "-" and the digits goes.
Ord(c) == IF c = "-" THEN 0 ELSE CHOOSE d \in 1..10 : DigitChars[d] = c

\* a < b of two strings: the order of Python's str.
RECURSIVE StrLess(_, _)
StrLess(a, b) ==
    IF b = <<>> THEN FALSE
    ELSE IF a = <<>> THEN TRUE
    ELSE IF Head(a) # Head(b) THEN Ord(Head(a)) < Ord(Head(b))
    ELSE StrLess(Tail(a), Tail(b))

\* (r.get("269__a") or [None])[0]
FirstDate(r) == IF r.f269 = None \/ r.f269.v = <<>> THEN None ELSE Str(r.f269.v[1])

\* set(d for r in batch if (d := ...)): the dates that are not empty.
DatesOf(page) ==
    {FirstDate(page[i]).v : i \in {j \in DOMAIN page :
                                      FirstDate(page[j]) # None /\ FirstDate(page[j]).v # <<>>}}

\* dates[-1] of the sorted dates.
LastDate(dates) == CHOOSE d \in dates : \A e \in dates : e = d \/ StrLess(e, d)

\* A streak that a page without old dates leaves as it is.
NextStreak_NoReset(streak, page) ==
    IF DatesOf(page) # {} /\ StrLess(LastDate(DatesOf(page)), IntToStr(start_date))
    THEN streak + 1 ELSE streak

\* old_streak + 1 if dates and dates[-1] < str(start_date) else 0
NextStreak(streak, page) ==
    IF DatesOf(page) # {} /\ StrLess(LastDate(DatesOf(page)), IntToStr(start_date))
    THEN streak + 1 ELSE 0

\* The pages the collaborator answers with: n records whose dates follow one
\* of these patterns.
DateOld == <<"2", "0", "2", "3", "-", "1", "2", "-", "3", "1">>
DateNew == <<"2", "0", "2", "4", "-", "0", "1", "-", "1", "5">>
DateYear == <<"2", "0", "2", "4">>

PagePatterns == {"none", "old", "new_first", "year", "old_first"}

Field269(pattern, i) ==
    CASE pattern = "none" -> IF i = 1 THEN None ELSE List(<<>>)
      [] pattern = "old" -> List(<<DateOld>>)
      [] pattern = "new_first" -> IF i = 1 THEN List(<<DateNew, DateOld>>) ELSE List(<<DateOld>>)
      [] pattern = "year" -> List(<<DateYear>>)
      [] pattern = "old_first" -> IF i = 1 THEN List(<<DateOld>>) ELSE List(<<<<>>>>)

\* The records at positions at + 1 .. at + n of the collaborator's list.
PageOf(at, n, pattern) ==
    [i \in 1..n |-> [id |-> at + i, f269 |-> Field269(pattern, i)]]

InitPager ==
    /\ pager_skip = 0
    /\ all_results = <<>>
    /\ old_streak = 0
    /\ fetched = <<>>
    /\ pager_pc = "loop"

IdlePager ==
    /\ pager_skip = 0
    /\ all_results = <<>>
    /\ old_streak = 0
    /\ fetched = <<>>
    /\ pager_pc = "off"

\* One pass of the while loop: the page at skip is requested and the loop
\* breaks or goes on to skip + limit.
FetchPage ==
    /\ pager_pc = "loop"
    /\ \E n \in 0..limit : \E pattern \in PagePatterns :
          /\ Len(fetched) >= MaxPages => n < limit
          /\ LET page == PageOf(pager_skip, n, pattern)
                 streak == IF start_date # 0 THEN NextStreak(old_streak, page) ELSE old_streak
             IN /\ fetched' = Append(fetched, [skip |-> pager_skip, page |-> page])
                /\ IF page = <<>>
                   THEN /\ pager_pc' = "returned"
                        /\ UNCHANGED <<all_results, old_streak, pager_skip>>
                   ELSE /\ all_results' = all_results \o page
                        /\ IF Len(page) < limit
                           THEN /\ pager_pc' = "returned"
                                /\ UNCHANGED <<old_streak, pager_skip>>
                           ELSE /\ old_streak' = streak
                                /\ IF start_date # 0 /\ streak >= 3
                                   THEN /\ pager_pc' = "returned"
                                        /\ UNCHANGED pager_skip
                                   ELSE /\ pager_pc' = "loop"
                                        /\ pager_skip' = pager_skip + limit

(***************************************************************************)
(* Embeddings: 03_generate_embeddings.py over the documents table that     *)
(* store_documents_in_db writes                                            *)
(***************************************************************************)

\* prepare_text_for_embedding(row), as far as the columns kept here go: the
\* symbol and the subject terms of the row.
prepare_text_for_embedding(sym, row) == [symbol |-> sym, subject_terms |-> row.subject_terms]

\* The collaborator's embedding of a text: it stands for the text.
EmbeddingOf(text) == [k |-> "vector", of |-> text]

\* fetch_reports_without_embeddings: rows of latest_versions joined to
\* documents WHERE d.embedding IS NULL AND d.text IS NOT NULL. The view and
\* the text column are not kept: any set of rows without an embedding.
FetchedWithoutEmbeddings(table, emb) == SUBSET {s \in DOMAIN table : s \notin DOMAIN emb}

\* update_embeddings: UPDATE documents SET embedding = v.embedding,
\* updated_at = NOW() WHERE id = v.id.
update_embeddings(table, ids, now) ==
    [s \in DOMAIN table |-> IF s \in ids THEN [table[s] EXCEPT !.updated_at = now] ELSE table[s]]

InitEmbed ==
    /\ InitStore
    /\ embedding = EmptyTable

IdleEmbed == embedding = EmptyTable

\* One pass of the loop of main: the rows fetched are embedded and written.
GenerateEmbeddings ==
    /\ store_pc \in {"start", "done", "failed"}
    /\ \E ids \in FetchedWithoutEmbeddings(documents, embedding) :
          /\ ids # {}
          /\ embedding' = [s \in DOMAIN embedding \cup ids |->
                              IF s \in ids
                              THEN EmbeddingOf(prepare_text_for_embedding(s, documents[s]))
                              ELSE embedding[s]]
          /\ documents' = update_embeddings(documents, ids, clock)
    /\ clock' = clock + 1
    /\ UNCHANGED <<batch, store_rows, store_pc, page_i, store_run, documents_first,
                   store_error, store_log>>

(***************************************************************************)
(* Specifications                                                          *)
(***************************************************************************)

NextFreq == CalculateFrequency /\ UNCHANGED <<tokVars, noteVars, shapeVars, fuzzyVars, storeVars, resolverVars, mandateVars, categoryVars, pagerVars, embedVars>>

FreqInit == InitFreq /\ IdleTok /\ IdleNotes /\ IdleShape /\ IdleFuzzy /\ IdleStore /\ IdleResolver /\ IdleMandate /\ IdleCategory /\ IdlePager /\ IdleEmbed

SpecFreq == FreqInit /\ [][NextFreq]_vars

NextTok == SplitSymbol /\ UNCHANGED <<freqVars, noteVars, shapeVars, fuzzyVars, storeVars, resolverVars, mandateVars, categoryVars, pagerVars, embedVars>>

TokInit == InitTok /\ IdleFreq /\ IdleNotes /\ IdleShape /\ IdleFuzzy /\ IdleStore /\ IdleResolver /\ IdleMandate /\ IdleCategory /\ IdlePager /\ IdleEmbed

SpecTok == TokInit /\ [][NextTok]_vars

NextNotes == ExtractResolutionSymbols /\ UNCHANGED <<freqVars, tokVars, shapeVars, fuzzyVars, storeVars, resolverVars, mandateVars, categoryVars, pagerVars, embedVars>>

NotesInit == InitNotes /\ IdleFreq /\ IdleTok /\ IdleShape /\ IdleFuzzy /\ IdleStore /\ IdleResolver /\ IdleMandate /\ IdleCategory /\ IdlePager /\ IdleEmbed

SpecNotes == NotesInit /\ [][NextNotes]_vars

NextShape ==
    \/ CleanListsForPostgres /\ UNCHANGED <<freqVars, tokVars, noteVars, fuzzyVars, storeVars, resolverVars, mandateVars, categoryVars, pagerVars, embedVars>>
    \/ ExplodeDocumentSymbolColumn /\ UNCHANGED <<freqVars, tokVars, noteVars, fuzzyVars, storeVars, resolverVars, mandateVars, categoryVars, pagerVars, embedVars>>

ShapeInit == InitShape /\ IdleFreq /\ IdleTok /\ IdleNotes /\ IdleFuzzy /\ IdleStore /\ IdleResolver /\ IdleMandate /\ IdleCategory /\ IdlePager /\ IdleEmbed

SpecShape == ShapeInit /\ [][NextShape]_vars

NextFuzzy ==
    \/ MatchDriRow /\ UNCHANGED <<freqVars, tokVars, noteVars, shapeVars, storeVars, resolverVars, mandateVars, categoryVars, pagerVars, embedVars>>
    \/ ReturnSuggestions /\ UNCHANGED <<freqVars, tokVars, noteVars, shapeVars, storeVars, resolverVars, mandateVars, categoryVars, pagerVars, embedVars>>

FuzzyInit == InitFuzzy /\ IdleFreq /\ IdleTok /\ IdleNotes /\ IdleShape /\ IdleStore /\ IdleResolver /\ IdleMandate /\ IdleCategory /\ IdlePager /\ IdleEmbed

SpecFuzzy == FuzzyInit /\ [][NextFuzzy]_vars

NextClean == CleanMetadata /\ UNCHANGED <<freqVars, tokVars, noteVars, fuzzyVars, storeVars, resolverVars, mandateVars, categoryVars, pagerVars, embedVars>>

CleanInit == InitClean /\ IdleFreq /\ IdleTok /\ IdleNotes /\ IdleFuzzy /\ IdleStore /\ IdleResolver /\ IdleMandate /\ IdleCategory /\ IdlePager /\ IdleEmbed

SpecClean == CleanInit /\ [][NextClean]_vars

NextCategory == StoreDocumentCategories /\ UNCHANGED <<freqVars, tokVars, noteVars, shapeVars, fuzzyVars, storeVars, resolverVars, mandateVars, pagerVars, embedVars>>

CategoryInit == InitCategory /\ IdleFreq /\ IdleTok /\ IdleNotes /\ IdleShape /\ IdleFuzzy /\ IdleStore /\ IdleResolver /\ IdleMandate /\ IdlePager /\ IdleEmbed

SpecCategory == CategoryInit /\ [][NextCategory]_vars

NextPager == FetchPage /\ UNCHANGED <<freqVars, tokVars, noteVars, shapeVars, fuzzyVars, storeVars, resolverVars, mandateVars, categoryVars, embedVars>>

PagerInit == InitPager /\ IdleFreq /\ IdleTok /\ IdleNotes /\ IdleShape /\ IdleFuzzy /\ IdleStore /\ IdleResolver /\ IdleMandate /\ IdleCategory /\ IdleEmbed

\* The loop runs on: a pass that can be made is made.
SpecPager == PagerInit /\ [][NextPager]_vars /\ WF_vars(NextPager)

otherVarsOfStore == <<freqVars, tokVars, noteVars, shapeVars, fuzzyVars, resolverVars, mandateVars, categoryVars, pagerVars, embedVars>>

NextStore ==
    \/ AssembleRows /\ UNCHANGED otherVarsOfStore
    \/ WritePage /\ UNCHANGED otherVarsOfStore
    \/ ReturnCount /\ UNCHANGED otherVarsOfStore
    \/ IngestAgain /\ UNCHANGED otherVarsOfStore

StoreInit == InitStore /\ IdleFreq /\ IdleTok /\ IdleNotes /\ IdleShape /\ IdleFuzzy /\ IdleResolver /\ IdleMandate /\ IdleCategory /\ IdlePager /\ IdleEmbed

SpecStore == StoreInit /\ [][NextStore]_vars

\* The ingestion and the embedding script over the same table.
NextEmbed ==
    \/ AssembleRows /\ UNCHANGED otherVarsOfStore
    \/ WritePage /\ UNCHANGED otherVarsOfStore
    \/ ReturnCount /\ UNCHANGED otherVarsOfStore
    \/ IngestAgain /\ UNCHANGED otherVarsOfStore
    \/ GenerateEmbeddings /\ UNCHANGED <<freqVars, tokVars, noteVars, shapeVars, fuzzyVars, resolverVars, mandateVars, categoryVars, pagerVars>>

EmbedInit == InitEmbed /\ IdleFreq /\ IdleTok /\ IdleNotes /\ IdleShape /\ IdleFuzzy /\ IdleResolver /\ IdleMandate /\ IdleCategory /\ IdlePager

SpecEmbed == EmbedInit /\ [][NextEmbed]_vars

otherVarsOfResolver == <<freqVars, tokVars, noteVars, shapeVars, storeVars, mandateVars, categoryVars, pagerVars, embedVars>>

NextResolver ==
    \/ PopulateReportingEntities /\ UNCHANGED otherVarsOfResolver
    \/ StartClassification /\ UNCHANGED otherVarsOfResolver
    \/ ClassifyReportEntity /\ UNCHANGED otherVarsOfResolver
    \/ StoreSuggestions /\ UNCHANGED otherVarsOfResolver
    \/ InterruptClassification /\ UNCHANGED otherVarsOfResolver

ResolverInit ==
    InitResolver /\ IdleFreq /\ IdleTok /\ IdleNotes /\ IdleShape /\ IdleStore /\ IdleMandate /\ IdleCategory /\ IdlePager /\ IdleEmbed

SpecResolver == ResolverInit /\ [][NextResolver]_vars

NextDgacm == MapDgacmToProperTitles /\ UNCHANGED otherVarsOfResolver

DgacmInit ==
    InitDgacm /\ IdleFreq /\ IdleTok /\ IdleNotes /\ IdleShape /\ IdleStore /\ IdleMandate /\ IdleCategory /\ IdlePager /\ IdleEmbed

SpecDgacm == DgacmInit /\ [][NextDgacm]_vars

\* The two stages that send a batch of items to the collaborator, one of
\* them in a behaviour.
NextLlmStages ==
    \/ StartClassification /\ UNCHANGED otherVarsOfResolver
    \/ ClassifyReportEntity /\ UNCHANGED otherVarsOfResolver
    \/ StoreSuggestions /\ UNCHANGED otherVarsOfResolver
    \/ InterruptClassification /\ UNCHANGED otherVarsOfResolver
    \/ LoadResolutions /\ UNCHANGED <<freqVars, tokVars, noteVars, shapeVars, fuzzyVars, storeVars, resolverVars, categoryVars, pagerVars, embedVars>>
    \/ ExtractMandateInfoLlm /\ UNCHANGED <<freqVars, tokVars, noteVars, shapeVars, fuzzyVars, storeVars, resolverVars, categoryVars, pagerVars, embedVars>>
    \/ StoreMandateResults /\ UNCHANGED <<freqVars, tokVars, noteVars, shapeVars, fuzzyVars, storeVars, resolverVars, categoryVars, pagerVars, embedVars>>

LlmStagesInit ==
    /\ IdleFreq /\ IdleTok /\ IdleNotes /\ IdleShape /\ IdleStore
    /\ IdleCategory /\ IdlePager /\ IdleEmbed
    /\ \/ InitResolver /\ IdleMandate
       \/ IdleResolver /\ IdleFuzzy /\ InitMandate

SpecLlmStages == LlmStagesInit /\ [][NextLlmStages]_vars

\* The LLM matcher run again and again with skip_existing: every run that
\* can start does, the results of a finished gather are stored unless the
\* run is killed every time, and the collaborator does not fail a report
\* for ever: it answers with a suggestion again and again while asked.
NextClassifier ==
    \/ StartClassificationWith(TRUE) /\ UNCHANGED otherVarsOfResolver
    \/ ClassifyReportEntity /\ UNCHANGED otherVarsOfResolver
    \/ StoreSuggestions /\ UNCHANGED otherVarsOfResolver
    \/ InterruptClassification /\ UNCHANGED otherVarsOfResolver

CollaboratorSucceeds(i) ==
    \E s \in LlmSuggestions \ {<<>>} : ClassifyReportEntityWith(i, Answered(s))

ClassifierFairness ==
    /\ WF_vars(StartClassificationWith(TRUE) /\ UNCHANGED otherVarsOfResolver)
    /\ SF_vars(StoreSuggestions /\ UNCHANGED otherVarsOfResolver)
    /\ \A i \in DOMAIN SgReports :
          SF_vars(CollaboratorSucceeds(i) /\ UNCHANGED otherVarsOfResolver)

SpecClassifierFair == ResolverInit /\ [][NextClassifier]_vars /\ ClassifierFairness


(***************************************************************************)
(* Claims about calculate_frequency (SpecFreq)                             *)
(***************************************************************************)

DistinctYears == ToSet(years)

\* The number of distinct years observed more than once.
YearsObservedTwice == Cardinality({y \in DistinctYears : Count(years, y) > 1})

\* total >= 3, distinct >= 2 and (total/distinct >= 2, or total/distinct >= 1.5
\* and the share of repeated years >= 0.4), in whole numbers.
MeetsMultiplePerYear ==
    /\ Len(years) >= 3
    /\ Cardinality(DistinctYears) >= 2
    /\ \/ Len(years) >= 2 * Cardinality(DistinctYears)
       \/ /\ 2 * Len(years) >= 3 * Cardinality(DistinctYears)
          /\ 10 * YearsObservedTwice >= 4 * Cardinality(DistinctYears)

LatestYear == CHOOSE y \in DistinctYears : \A z \in DistinctYears : z <= y

\* gs lists the differences of the distinct years taken from the latest down:
\* every partial sum leads from the latest year to another distinct year, every
\* gap is positive and there is one gap less than there are distinct years.
IsGapsOfDistinctYears(gs) ==
    /\ Len(gs) = Cardinality(DistinctYears) - 1
    /\ \A i \in DOMAIN gs : gs[i] > 0
    /\ \A k \in 0..Len(gs) : LatestYear - SumSeq(SubSeq(gs, 1, k)) \in DistinctYears

\* C4: with at least 2 observations the label is 'multiple-per-year' exactly
\* when total >= 3, distinct >= 2 and (avg >= 2.0, or avg >= 1.5 and at least
\* 0.4 of the distinct years are repeated); the gap history then lists the
\* differences of the descending distinct years.
C4_MultiplePerYearIff ==
    (freq_result.called /\ Len(years) >= 2) =>
        /\ (freq_result.label = "multiple-per-year") <=> MeetsMultiplePerYear
        /\ freq_result.label = "multiple-per-year" => IsGapsOfDistinctYears(freq_result.gaps)

\* The example of the specification: two years observed twice out of three.
C4_Witness ==
    /\ freq_result.called
    /\ years = <<2024, 2024, 2023, 2023, 2022>>
    /\ freq_result.label = "multiple-per-year"
    /\ freq_result.gaps = <<1, 1>>

\* The weighted count of gap value m in gs: the gap at position i (0 the most
\* recent) counts max(1, 3 - i) times.
WeightedCount(gs, m) ==
    SumSeq([j \in DOMAIN gs |-> IF gs[j] = m THEN (IF j = 1 THEN 3 ELSE IF j = 2 THEN 2 ELSE 1)
                                ELSE 0])

LabelOfGap(m) ==
    CASE m = 1 -> "annual"
      [] m = 2 -> "biennial"
      [] m = 3 -> "triennial"
      [] m = 4 -> "quadrennial"
      [] m = 5 -> "quinquennial"
      [] m = 6 -> "every-6-years"
      [] m = 7 -> "every-7-years"
      [] m = 8 -> "every-8-years"
      [] m = 9 -> "every-9-years"
      [] m = 10 -> "every-10-years"
      [] OTHER -> "irregular"

FrequencyLabels ==
    {LabelOfGap(m) : m \in 1..11} \cup {"one-time", "multiple-per-year"}

\* C5: with at least 2 distinct years and no multiple-per-year pattern the
\* label is that of a gap value with the highest weighted count over the gaps
\* of the descending distinct years; the label is always one of the known ones.
C5_WeightedModeLabel ==
    freq_result.called =>
        /\ freq_result.label \in FrequencyLabels
        /\ (Cardinality(DistinctYears) >= 2 /\ ~MeetsMultiplePerYear) =>
              LET gs == ConsecutiveGaps(SortedDesc(DistinctYears))
              IN \E m \in ToSet(gs) :
                    /\ \A n \in ToSet(gs) : WeightedCount(gs, n) <= WeightedCount(gs, m)
                    /\ freq_result.label = LabelOfGap(m)

\* Gaps 2, 3, 1, 1: the most recent gap outweighs the repeated older one.
C5_Witness ==
    /\ freq_result.called
    /\ years = <<2024, 2022, 2019, 2018, 2017>>
    /\ freq_result.gaps = <<2, 3, 1, 1>>
    /\ freq_result.label = "biennial"

\* C6: the result is ('one-time', []) exactly when there are fewer than 2
\* distinct years.
C6_OneTimeIffFewerThanTwoDistinct ==
    freq_result.called =>
        /\ (freq_result.label = "one-time") <=> (Cardinality(DistinctYears) < 2)
        /\ freq_result.label = "one-time" => freq_result.gaps = <<>>

\* Three observations of one single year.
C6_Witness ==
    /\ freq_result.called
    /\ years = <<2024, 2024, 2024>>
    /\ freq_result.label = "one-time"
    /\ freq_result.gaps = <<>>

\* The gap values holding the highest weighted count.
TiedModes(gs) ==
    {m \in ToSet(gs) : \A n \in ToSet(gs) : WeightedCount(gs, n) <= WeightedCount(gs, m)}

\* The first element of gs that is one of the values ms.
FirstAmong(gs, ms) ==
    gs[CHOOSE i \in DOMAIN gs : gs[i] \in ms /\ \A j \in 1..(i - 1) : gs[j] \notin ms]

\* C18: when gap values share the highest weighted count in
\* calculate_frequency, the label is that of the tied value that comes first
\* in the gap list, the most recent one: gaps [2, 1, 1] give 'biennial', gaps
\* [1, 2, 2] give 'annual', and a series of at most 3 gaps that reaches the
\* mode is labelled by its most recent gap.
C18_TieGoesToMostRecentGap ==
    (freq_result.called /\ Cardinality(DistinctYears) >= 2 /\ ~MeetsMultiplePerYear) =>
        LET gs == freq_result.gaps
        IN /\ freq_result.label = LabelOfGap(FirstAmong(gs, TiedModes(gs)))
           /\ Len(gs) <= 3 => freq_result.label = LabelOfGap(gs[1])
           /\ gs = <<2, 1, 1>> => freq_result.label = "biennial"
           /\ gs = <<1, 2, 2>> => freq_result.label = "annual"

\* Gaps 2, 1, 1: the values 2 and 1 both weigh 3.
C18_Witness ==
    /\ freq_result.called
    /\ years = <<2021, 2019, 2018, 2017>>
    /\ freq_result.gaps = <<2, 1, 1>>
    /\ freq_result.label = "biennial"

(***************************************************************************)
(* Claims about _split_symbol_with_separators (SpecTok)                    *)
(***************************************************************************)

HasSeparator(token) == \E i \in DOMAIN token : IsSeparator(token[i])

\* C2: the tokens concatenate to the symbol, none is empty, each is one
\* separator or free of separators, no two neighbours are both free of
\* separators (runs are maximal); a null symbol gives no token.
C2_TokenizerRoundTrip ==
    parts.called =>
        IF IsNA(symbol) THEN parts.tokens = <<>>
        ELSE /\ Concat(parts.tokens) = symbol.v
             /\ \A i \in DOMAIN parts.tokens :
                   /\ parts.tokens[i] # <<>>
                   /\ HasSeparator(parts.tokens[i]) => Len(parts.tokens[i]) = 1
             /\ \A i \in 1..(Len(parts.tokens) - 1) :
                   HasSeparator(parts.tokens[i]) \/ HasSeparator(parts.tokens[i + 1])

\* Two separators in a row and a run of two characters.
C2_Witness ==
    /\ parts.called
    /\ symbol = Str(<<"A", "1", "/", "(">>)
    /\ parts.tokens = <<<<"A", "1">>, <<"/">>, <<"(">>>>


(***************************************************************************)
(* Claims about extract_resolution_symbols_from_notes (SpecNotes)          *)
(***************************************************************************)

\* A resolution number of a note, with or without a part letter after it.
NoteItems == {[num |-> n, part |-> b] :
                 n \in {<<"7", "8", "/", "7", "0">>, <<"7", "9", "/", "1">>}, b \in BOOLEAN}

ItemText(it) == it.num \o (IF it.part THEN <<" ", "B">> ELSE <<>>)

NoteJoiners == {<<" ", "a", "n", "d", " ">>, <<",", " ">>}

GaNoteHeads ==
    { <<"R", "e", "c", "a", "l", "l", "i", "n", "g", " ", "G", "e", "n", "e", "r", "a", "l", " ", "A", "s", "s", "e", "m", "b", "l", "y", " ", "r", "e", "s", "o", "l", "u", "t", "i", "o", "n", "s", " ">>,
      <<"G", "e", "n", "e", "r", "a", "l", " ", "A", "s", "s", "e", "m", "b", "l", "y", " ", "r", "e", "s", "o", "l", "u", "t", "i", "o", "n", " ">> }

\* The text of the items its joined by the joiners js.
JoinedText(its, js) ==
    Concat([i \in 1..(2 * Len(its) - 1) |->
               IF i % 2 = 1 THEN ItemText(its[(i + 1) \div 2]) ELSE js[i \div 2]])

\* C3: for a note in which the General Assembly phrase is followed by
\* resolution numbers joined by "and" or commas, the result is 'A/RES/<number>'
\* for each number, in text order and without duplicates, with a letter suffix
\* only where a part letter follows the number.
C3_GaNumbersJoined ==
    resolution_symbols.called =>
        \A h \in GaNoteHeads :
        \A n \in 1..2 :
        \A its \in [1..n -> NoteItems] :
        \A js \in [1..(n - 1) -> NoteJoiners] :
            notes = Str(h \o JoinedText(its, js)) =>
                resolution_symbols.symbols =
                    DedupePreserveOrder([i \in 1..n |-> RES_PREFIX_GA \o ItemText(its[i])])


(***************************************************************************)
(* Claims about clean_lists_for_postgres and the explosion (SpecShape)     *)
(***************************************************************************)

\* The elements of a list at the positions where they occur first.
RECURSIVE FirstOccurrencesFrom(_, _)
FirstOccurrencesFrom(xs, i) ==
    IF i > Len(xs) THEN <<>>
    ELSE (IF \E j \in 1..(i - 1) : xs[j] = xs[i] THEN <<>> ELSE <<xs[i]>>)
         \o FirstOccurrencesFrom(xs, i + 1)

FirstOccurrences(xs) == FirstOccurrencesFrom(xs, 1)

\* The call of clean_lists_for_postgres reached its always-scalar step.
ReachedScalarStep ==
    /\ stage \in {"cleaned", "failed"}
    /\ error.raised => error.why = "scalar_expected"

ScalarColumnsOfInput == df_in.columns \cap ALWAYS_SCALAR

\* What the claim lets an always-scalar cell become, from the list without
\* its duplicates; the cell itself when it is not a list.
DecidedOnDeduped(x) ==
    IF ~IsList(x) THEN x
    ELSE IF Len(FirstOccurrences(x.v)) = 0 THEN NA
    ELSE Str(FirstOccurrences(x.v)[1])

\* C1: for every always-scalar column and every row, clean_lists_for_postgres
\* decides on the list without its duplicates: it raises exactly when some
\* cell holds 2 or more distinct values, and otherwise an empty list becomes
\* null and a list of one distinct value ([x] or [x, x]) becomes that value.
C1_ScalarDecidesOnDedupedList ==
    ReachedScalarStep =>
        /\ error.raised <=>
              \E c \in ScalarColumnsOfInput : \E i \in DOMAIN df_in.rows :
                  /\ IsList(df_in.rows[i][c])
                  /\ Len(FirstOccurrences(df_in.rows[i][c].v)) >= 2
        /\ ~error.raised =>
              \A c \in ScalarColumnsOfInput : \A i \in DOMAIN df_in.rows :
                  df.rows[i][c] = DecidedOnDeduped(df_in.rows[i][c])

\* The rows one record becomes: one per distinct symbol of a non-empty list in
\* order of first occurrence, one with a null symbol for an empty list, and
\* the record itself when its symbol is not a list.
ExplodedRecord(row) ==
    IF ~IsList(row.symbol) THEN <<row>>
    ELSE IF row.symbol.v = <<>> THEN <<[row EXCEPT !.symbol = NA]>>
    ELSE LET distinct == FirstOccurrences(row.symbol.v)
         IN [j \in 1..Len(distinct) |-> [row EXCEPT !.symbol = Str(distinct[j])]]

\* The rows one record becomes when an empty list, too, gives one row per
\* distinct symbol, that is none.
ExplodedRecordPerSymbol(row) ==
    IF ~IsList(row.symbol) THEN <<row>>
    ELSE LET distinct == FirstOccurrences(row.symbol.v)
         IN [j \in 1..Len(distinct) |-> [row EXCEPT !.symbol = Str(distinct[j])]]

\* C10: explode_document_symbol_column turns each record whose symbol is a
\* non-empty list into one row per distinct symbol in order of first
\* occurrence, each holding one scalar symbol and a copy of every other field
\* (the raw payload included); a record whose symbol is an empty list gives one
\* row with a null symbol; any other record gives itself; the records keep
\* their relative order.
C10_ExplodeOneRowPerDistinctSymbol ==
    stage = "exploded" =>
        /\ df.columns = df_in.columns
        /\ df.rows = Concat([i \in DOMAIN df_in.rows |-> ExplodedRecord(df_in.rows[i])])

\* A record with a repeated symbol and two distinct symbols, and a record with
\* an empty list, were exploded.
C10_Witness ==
    /\ stage = "exploded"
    /\ "raw_json" \in df.columns
    /\ Len(df_in.rows) = 2
    /\ df_in.rows[1].symbol = List(<<SymbolB, SymbolA, SymbolB>>)
    /\ df_in.rows[2].symbol = List(<<>>)
    /\ Len(df.rows) = 3
    /\ df.rows[2].symbol = Str(SymbolA)
    /\ df.rows[2].raw_json = df_in.rows[1].raw_json

\* C10 as stated: every record whose symbol is a list, the empty list
\* included, gives exactly one row per distinct symbol.
C10_AsStated ==
    stage = "exploded" =>
        /\ df.columns = df_in.columns
        /\ df.rows = Concat([i \in DOMAIN df_in.rows |->
                                ExplodedRecordPerSymbol(df_in.rows[i])])

(***************************************************************************)
(* Claims about match_dri_to_proper_titles (SpecFuzzy)                     *)
(***************************************************************************)

\* The rows of dri_grouped that reach the matching: a title and an entity of
\* the vocabulary.
MatchedRows ==
    {k \in DOMAIN dri_grouped :
        /\ dri_grouped[k].norm_title # <<>>
        /\ dri_grouped[k].ENTITY \in valid_entities}

\* The highest unrounded score of a title over its candidates, 0 without any.
BestCandidateScore(dri_title) ==
    LET cs == Candidates(dri_title)
    IN IF cs = <<>> THEN 0
       ELSE LET scores == {fuzzy_match_score(dri_title, cs[k].norm_title) : k \in DOMAIN cs}
            IN CHOOSE m \in scores : \A x \in scores : x <= m

\* The row k of dri_grouped has a suggestion: one for its entity and a
\* candidate reaching its best score, scoring no less than the row does.
HasSuggestion(k) ==
    LET row == dri_grouped[k]
        cs == Candidates(row.norm_title)
    IN \E n \in DOMAIN dri_suggestions.rows : \E c \in DOMAIN cs :
          /\ fuzzy_match_score(row.norm_title, cs[c].norm_title)
                = BestCandidateScore(row.norm_title)
          /\ dri_suggestions.rows[n].proper_title = cs[c].proper_title
          /\ dri_suggestions.rows[n].entity = row.ENTITY
          /\ dri_suggestions.rows[n].confidence_score
                >= Round3(BestCandidateScore(row.norm_title))

\* The suggestion n comes from the row k of dri_grouped.
ProducedBy(n, k) ==
    /\ dri_suggestions.rows[n].match_details.dri_title = dri_grouped[k].DOCUMENT_TITLE
    /\ dri_suggestions.rows[n].entity = dri_grouped[k].ENTITY
    /\ dri_suggestions.rows[n].confidence_score
          = Round3(BestCandidateScore(dri_grouped[k].norm_title))

\* C7: in match_dri_to_proper_titles an external title that reaches the
\* matching has a suggestion when its best candidate scores 0.8 or more
\* unrounded, and is the origin of a suggestion only then (a score below 0.8
\* that rounds to 0.800 is rejected); every suggestion returned has a
\* confidence_score in [0.8, 1.0].
C7_ThresholdBeforeRounding ==
    dri_suggestions.called =>
        /\ \A k \in MatchedRows :
              BestCandidateScore(dri_grouped[k].norm_title) >= Threshold => HasSuggestion(k)
        /\ \A n \in DOMAIN dri_suggestions.rows :
              \E k \in MatchedRows :
                 /\ ProducedBy(n, k)
                 /\ BestCandidateScore(dri_grouped[k].norm_title) >= Threshold
        /\ \A n \in DOMAIN dri_suggestions.rows :
              /\ dri_suggestions.rows[n].confidence_score >= 800
              /\ dri_suggestions.rows[n].confidence_score <= 1000

\* A run in which one title scored exactly 0.8 and got its suggestion with
\* confidence 0.800, and another scored 0.7996 and got none.
C7_Witness ==
    /\ dri_suggestions.called
    /\ Len(dri_suggestions.rows) = 1
    /\ dri_suggestions.rows[1].confidence_score = 800
    /\ \E k \in MatchedRows : BestCandidateScore(dri_grouped[k].norm_title) = Threshold
    /\ \E k \in MatchedRows : BestCandidateScore(dri_grouped[k].norm_title) = 7996

\* The rows of the roster itself that name an entity of the vocabulary and
\* whose best candidate scores the threshold or more.
AcceptedRosterRows ==
    {i \in DOMAIN dri_df :
        /\ dri_df[i].norm_title # <<>>
        /\ dri_df[i].ENTITY \in valid_entities
        /\ BestMatch(dri_df[i].norm_title).found
        /\ BestMatch(dri_df[i].norm_title).score >= Threshold}

\* The roster rows behind the pair (proper_title, entity).
RosterRowsOf(proper_title, entity) ==
    {i \in AcceptedRosterRows :
        /\ dri_df[i].ENTITY = entity
        /\ BestMatch(dri_df[i].norm_title).proper_title = proper_title}

\* The highest score of the best candidates of a set of roster rows.
HighestScoreOf(is) ==
    LET scores == {BestMatch(dri_df[i].norm_title).score : i \in is}
    IN CHOOSE m \in scores : \A x \in scores : x <= m

\* The suggestions returned for the pair (proper_title, entity).
SuggestionsOf(proper_title, entity) ==
    {n \in DOMAIN dri_suggestions.rows :
        /\ dri_suggestions.rows[n].proper_title = proper_title
        /\ dri_suggestions.rows[n].entity = entity}

\* C19: the list match_dri_to_proper_titles returns holds, for each pair
\* (proper_title, entity) behind which there is a roster row of a valid
\* entity whose best candidate is that title with a score of 0.8 or more,
\* exactly one suggestion, scored with the highest such score over all
\* roster rows of the pair, and no suggestion for any other pair; two roster
\* rows with one normalized title and different valid entities each get one.
C19_BestPerTitleAndEntityOverAllRows ==
    dri_suggestions.called =>
        /\ \A i \in AcceptedRosterRows :
              LET pt == BestMatch(dri_df[i].norm_title).proper_title
                  ns == SuggestionsOf(pt, dri_df[i].ENTITY)
              IN /\ Cardinality(ns) = 1
                 /\ \A n \in ns :
                       dri_suggestions.rows[n].confidence_score
                          = Round3(HighestScoreOf(RosterRowsOf(pt, dri_df[i].ENTITY)))
        /\ \A n \in DOMAIN dri_suggestions.rows :
              RosterRowsOf(dri_suggestions.rows[n].proper_title,
                           dri_suggestions.rows[n].entity) # {}

(***************************************************************************)
(* Claims about store_documents_in_db (SpecStore)                          *)
(***************************************************************************)

\* The columns the INSERT writes, without the timestamp.
WrittenFields(table) ==
    [key \in DOMAIN table |->
        [subject_terms |-> table[key].subject_terms, raw_json |-> table[key].raw_json]]

\* C8: once the batch has been ingested, ingesting the same batch again leaves
\* the documents table with the same symbols and, for every symbol, the same
\* value in every written column as the first ingestion left; only updated_at
\* changes, and no row or list element is added.
C8_ReingestionLeavesStoreUnchanged ==
    (store_run >= 2 /\ store_log[1].outcome = "done") =>
        WrittenFields(documents) = WrittenFields(documents_first)

\* A batch of three documents, written in two pages, was ingested twice, and
\* the second ingestion changed a timestamp.
C8_Witness ==
    /\ store_run = 2
    /\ store_pc = "done"
    /\ store_log[1].outcome = "done"
    /\ Len(store_rows) = 3
    /\ Len(batch) = 3
    /\ \E key \in DOMAIN documents :
          /\ documents[key].subject_terms = List(<<SubjectX>>)
          /\ documents[key].updated_at # documents_first[key].updated_at

\* The tuples of the ingestion are assembled and deduplicated.
RowsAssembled == store_pc \in {"writing", "done"} \/ store_error \in {IntegrityError, OperationalError}

\* The row of the batch the n-th assembled tuple was made from.
SourceRow(n) == CHOOSE i \in DOMAIN batch : batch[i].raw_json = store_rows[n].raw_json

\* C9: the rows store_documents_in_db assembles to write have pairwise
\* distinct, non-null, non-empty symbols; of the input rows with one symbol
\* the last is the one kept; the kept rows are in the order of the input.
C9_AssembledRowsKeyed ==
    RowsAssembled =>
        /\ \A m, n \in DOMAIN store_rows :
              m # n => store_rows[m].symbol # store_rows[n].symbol
        /\ \A n \in DOMAIN store_rows :
              /\ store_rows[n].symbol # None
              /\ store_rows[n].symbol # Str(<<>>)
        /\ \A n \in DOMAIN store_rows : \A i \in DOMAIN batch :
              batch[i].symbol = batch[SourceRow(n)].symbol => i <= SourceRow(n)
        /\ \A m, n \in DOMAIN store_rows : m < n => SourceRow(m) < SourceRow(n)

\* The writing of a page failed in the current ingestion.
PageWriteFailed == store_pc = "failed" /\ store_error \in {IntegrityError, OperationalError}

\* The table the current ingestion found.
TableBefore == store_log[Len(store_log)].before

\* The assembled tuples of the pages before the offset i, and those from it.
RowsOfPagesBefore(i) == {store_rows[n] : n \in {m \in DOMAIN store_rows : m <= i}}
RowsOfPagesFrom(i) == {store_rows[n] : n \in {m \in DOMAIN store_rows : m > i}}

\* An earlier ingestion of the batch failed at a page.
FailedAtPageBefore ==
    \E r \in DOMAIN store_log :
        r < Len(store_log) /\ store_log[r].outcome = "failed" /\ store_rows # <<>>

\* C17: store_documents_in_db commits page by page. When the writing of the
\* page at offset page_i fails, the error is raised, every tuple of the pages
\* before it is in the table with its written columns, no tuple of that page
\* or a later one has been written by the ingestion, and no other row has
\* changed; and an ingestion of the same batch that completes after a failed
\* one leaves the written columns an uninterrupted ingestion leaves.
C17_CommitPerPage ==
    /\ PageWriteFailed =>
          /\ store_error.raised
          /\ \A t \in RowsOfPagesBefore(page_i) :
                /\ t.symbol \in DOMAIN documents
                /\ documents[t.symbol].subject_terms = t.subject_terms
                /\ documents[t.symbol].raw_json = t.raw_json
          /\ \A t \in RowsOfPagesFrom(page_i) :
                IF t.symbol \in DOMAIN TableBefore
                THEN documents[t.symbol] = TableBefore[t.symbol]
                ELSE t.symbol \notin DOMAIN documents
          /\ DOMAIN documents
                = DOMAIN TableBefore \cup {t.symbol : t \in RowsOfPagesBefore(page_i)}
          /\ \A key \in DOMAIN TableBefore :
                (\A t \in RowsOfPagesBefore(page_i) : t.symbol # key)
                    => documents[key] = TableBefore[key]
    /\ (store_pc = "done" /\ FailedAtPageBefore) =>
          WrittenFields(documents)
             = WrittenFields(UpsertPage(store_log[1].before, store_rows, clock))

\* A batch of three documents: the first ingestion wrote the first page and
\* failed at the second, the second ingestion completed.
C17_Witness ==
    /\ store_run = 2
    /\ store_pc = "done"
    /\ Len(store_rows) = 3
    /\ store_log[1].outcome = "failed"
    /\ store_log[1].page = batch_size
    /\ store_log[1].before # EmptyTable
    /\ Cardinality(DOMAIN documents) = 3

(***************************************************************************)
(* Further claims about clean_lists_for_postgres (SpecShape)               *)
(***************************************************************************)

\* The call of clean_lists_for_postgres reached its candidate-column step.
ReachedCandidateStep ==
    /\ stage \in {"cleaned", "failed"}
    /\ error.raised => error.why \in {"candidate_not_scalar", "scalar_expected"}

CandidateColumnsOfInput == df_in.columns \cap CANDIDATE_SCALAR_FROM_LIST

\* The distinct values of a cell read as a list: none for a null, the value
\* itself for a scalar.
DistinctValues(x) ==
    IF IsList(x) THEN FirstOccurrences(x.v)
    ELSE IF IsNA(x) THEN <<>>
    ELSE <<x.v>>

\* Every row of the input holds at most one distinct value in column c.
EveryRowAtMostOne(c) ==
    \A i \in DOMAIN df_in.rows : Len(DistinctValues(df_in.rows[i][c])) <= 1

\* The 0-based indices of the rows holding 2 or more distinct values.
RECURSIVE OffendingFrom(_, _)
OffendingFrom(c, i) ==
    IF i > Len(df_in.rows) THEN <<>>
    ELSE (IF Len(DistinctValues(df_in.rows[i][c])) > 1 THEN <<i - 1>> ELSE <<>>)
         \o OffendingFrom(c, i + 1)

\* C11: for every candidate-scalar column, clean_lists_for_postgres makes the
\* column scalar (empty list to null, one-element list to its element) exactly
\* when every row holds at most one distinct value; otherwise in lenient mode
\* every row stays a deduplicated list, and in strict mode a ValueError naming
\* the column and the offending rows is raised; scalars and lists never mix.
C11_CandidateColumnAllOrNothing ==
    ReachedCandidateStep =>
        \A c \in CandidateColumnsOfInput :
            /\ EveryRowAtMostOne(c) =>
                  /\ ~(error.raised /\ error.why = "candidate_not_scalar")
                  /\ \A i \in DOMAIN df.rows :
                        df.rows[i][c] =
                            IF DistinctValues(df_in.rows[i][c]) = <<>> THEN NA
                            ELSE Str(DistinctValues(df_in.rows[i][c])[1])
            /\ (~EveryRowAtMostOne(c) /\ ~strict) =>
                  \A i \in DOMAIN df.rows :
                        df.rows[i][c] = List(DistinctValues(df_in.rows[i][c]))
            /\ (~EveryRowAtMostOne(c) /\ strict) =>
                  error = ValueError("candidate_not_scalar", c, OffendingFrom(c, 1))

\* C12: shape enforcement is idempotent: applied to the frame it returned,
\* clean_lists_for_postgres raises nothing and returns the same value in
\* every cell.
C12_ShapeEnforcementIdempotent ==
    /\ stage # "failed_again"
    /\ stage = "cleaned_twice" => df = df_in

\* The second application ran on a frame in which the first had turned lists
\* into a scalar and a null and had kept a column of deduplicated lists.
C12_Witness ==
    /\ stage = "cleaned_twice"
    /\ Len(df.rows) = 2
    /\ df.rows[1].symbol = List(<<SymbolB, SymbolA>>)
    /\ df.rows[2].symbol = List(<<SymbolA>>)
    /\ df.rows[1].proper_title = Str(TitleT)
    /\ df.rows[2].proper_title = NA
    /\ df.rows[1].subject_terms = List(<<SubjectX>>)

(***************************************************************************)
(* Claims about the entity resolver (SpecResolver, SpecLlmStages,          *)
(* SpecClassifierFair)                                                     *)
(***************************************************************************)

\* The tuples of a matcher's output have pairwise distinct (proper_title,
\* entity).
AtMostOnePerPair(suggestions) ==
    \A m, n \in DOMAIN suggestions :
        (/\ suggestions[m].proper_title = suggestions[n].proper_title
         /\ suggestions[m].entity = suggestions[n].entity) => m = n

\* C13: the table report_entity_suggestions never holds two rows with one
\* (proper_title, entity, source); map_dgacm_to_proper_titles and
\* match_dri_to_proper_titles each return at most one tuple per
\* (proper_title, entity), and a write of store_suggestions for a key the
\* table has leaves one row for it.
C13_NoDuplicateSuggestions ==
    /\ \A r \in BagToSet(report_entity_suggestions) :
          /\ CopiesIn(r, report_entity_suggestions) = 1
          /\ RowsWithKey(report_entity_suggestions, r) = {r}
    /\ AtMostOnePerPair(map_dgacm_to_proper_titles)
    /\ AtMostOnePerPair(match_dri_to_proper_titles)

\* The store step received two results for one title with different scores
\* for DPPA, so that its second INSERT met the row of the first; the table
\* holds one 'ai' row for the pair.
C13_Witness ==
    /\ resolver_pc = "stored"
    /\ Len(results) = 2
    /\ results[1].success /\ results[2].success
    /\ results[1].proper_title = results[2].proper_title
    /\ results[1].suggestions = <<[entity |-> "DPPA", confidence |-> "high"]>>
    /\ results[2].suggestions = <<[entity |-> "DPPA", confidence |-> "low"]>>
    /\ \E r \in BagToSet(report_entity_suggestions) :
          /\ r.source = "ai"
          /\ r.proper_title = results[2].proper_title
          /\ r.confidence_score = Score(500)

\* The rows a finished run of the LLM matcher wrote, and those a finished
\* run of the manual and fuzzy matchers wrote.
RowsOfClassification ==
    UNION {ToSet(AiRows(results[i])) : i \in DOMAIN results}

RowsOfPopulate ==
    ToSet(dgacm_values(map_dgacm_to_proper_titles))
        \cup ToSet(dri_values(match_dri_to_proper_titles))

\* C14: after a run of the manual and fuzzy matchers every row of
\* report_entity_suggestions is one that run produced, and after a run of
\* the LLM matcher every 'ai' row is one the results of that run yield; no
\* row of an earlier run is left.
C14_NoRowOfAnEarlierRun ==
    /\ resolver_pc = "populated" =>
          BagToSet(report_entity_suggestions) \subseteq RowsOfPopulate
    /\ resolver_pc = "stored" =>
          \A r \in BagToSet(report_entity_suggestions) :
              r.source = "ai" => r \in RowsOfClassification

\* C15: when the LLM matcher is run again and again with skip_existing, a
\* result with success = false is always the outcome of a request of the
\* current run, never one kept from an earlier run; so, the collaborator
\* not failing for ever, every eligible report has an 'ai' row in the table
\* in the end; and a report that has one is not selected again.
C15_EveryEligibleReportClassified ==
    /\ [](\A i \in DOMAIN results :
             (results[i].returned /\ ~results[i].success) => responses[i].called)
    /\ \A t \in EligibleTitles : <>HasAiRow(report_entity_suggestions, t)
    /\ [](resolver_pc = "classifying" =>
             \A i \in DOMAIN reports :
                ~HasAiRow(report_entity_suggestions, reports[i].proper_title))

\* C20: the dict classify_report_entity returns for a report, from the cache
\* or not, carries the proper_title and the symbol of that report.
C20_CacheHitIsOfTheSameReport ==
    \A i \in DOMAIN results :
        results[i].returned =>
            /\ results[i].proper_title = reports[i].proper_title
            /\ results[i].symbol = reports[i].symbol

\* The rows of a table that a step added or changed.
WrittenRows(before, after) == BagToSet(after) \ BagToSet(before)

\* C16: in a batch of N items of the mandate extraction or of the entity
\* classification there is one result per item; an item whose request
\* raised has success = false and an empty list, an item whose request was
\* answered has the answer as its result, whatever happened to the others;
\* and the store step writes rows of successful items only.
C16_FailureStaysWithItsItem ==
    /\ [](resolver_pc = "stored" => Len(results) = Len(reports))
    /\ [](\A i \in DOMAIN results :
             /\ (responses[i].called /\ responses[i].raised) =>
                   /\ results[i].returned
                   /\ ~results[i].success
                   /\ results[i].suggestions = <<>>
                   /\ results[i].proper_title = reports[i].proper_title
             /\ (responses[i].called /\ ~responses[i].raised) =>
                   results[i] = Classified(reports[i], responses[i].payload))
    /\ [][resolver_pc' = "stored" =>
             \A r \in WrittenRows(report_entity_suggestions, report_entity_suggestions') :
                \E i \in DOMAIN results :
                   /\ results[i].success
                   /\ r.proper_title = results[i].proper_title
                   /\ \E k \in DOMAIN results[i].suggestions :
                         r.entity = results[i].suggestions[k].entity]_vars
    /\ [](mandate_pc = "stored" => Len(mandate_results) = Len(resolutions))
    /\ [](\A i \in DOMAIN mandate_results :
             /\ (mandate_responses[i].called /\ mandate_responses[i].raised) =>
                   /\ ~mandate_results[i].success
                   /\ mandate_results[i].mandates = <<>>
                   /\ mandate_results[i].symbol = resolutions[i]
             /\ (mandate_responses[i].called /\ ~mandate_responses[i].raised) =>
                   mandate_results[i] = Extracted(resolutions[i], mandate_responses[i].payload))
    /\ [][mandate_pc' = "stored" =>
             \A r \in ToSet(resolution_mandates') \ ToSet(resolution_mandates) :
                \E i \in DOMAIN mandate_results :
                   /\ mandate_results[i].success
                   /\ r.resolution_symbol = mandate_results[i].symbol
                   /\ \E k \in DOMAIN mandate_results[i].mandates :
                         r.verbatim_paragraph = mandate_results[i].mandates[k].verbatim_paragraph]_vars

\* A batch of two reports: the request of the first raised, that of the
\* second was answered, and the table has a row for the second only.
C16_Witness ==
    /\ resolver_pc = "stored"
    /\ Len(results) = 2
    /\ responses[1] = Raised
    /\ responses[2] = Answered(<<[entity |-> "DPPA", confidence |-> "high"]>>)
    /\ ~results[1].success
    /\ HasAiRow(report_entity_suggestions, reports[2].proper_title)
    /\ ~HasAiRow(report_entity_suggestions, reports[1].proper_title)

(***************************************************************************)
(* Claims about the gap history (SpecFreq)                                 *)
(***************************************************************************)

\* The k-th distinct year counted from the latest.
NthLatestYear(k) ==
    CHOOSE y \in DistinctYears : Cardinality({z \in DistinctYears : z > y}) = k - 1

EarliestYear == CHOOSE y \in DistinctYears : \A z \in DistinctYears : y <= z

\* C28: for years with at least 2 distinct values the returned gap history
\* has one entry less than there are distinct years, entry i is the
\* difference between the i-th and the (i+1)-th latest distinct year, every
\* entry is >= 1 and the entries sum to latest - earliest year; so the
\* filter g > 0 removes nothing and the history is the list that is weighted.
C28_GapHistoryIsPositiveAndComplete ==
    (freq_result.called /\ Cardinality(DistinctYears) >= 2) =>
        LET gs == freq_result.gaps
        IN /\ Len(gs) = Cardinality(DistinctYears) - 1
           /\ \A i \in DOMAIN gs : gs[i] = NthLatestYear(i) - NthLatestYear(i + 1)
           /\ \A i \in DOMAIN gs : gs[i] >= 1
           /\ SumSeq(gs) = LatestYear - EarliestYear
           /\ PositiveGaps(gs) = gs

\* Five observations of four distinct years, given out of order and with a
\* repeat: the history runs from the latest gap to the earliest.
C28_Witness ==
    /\ freq_result.called
    /\ years = <<2011, 2024, 2000, 2011, 2023>>
    /\ freq_result.gaps = <<1, 12, 11>>
    /\ freq_result.label = "annual"

(***************************************************************************)
(* Claims about the order of the resolver's runs (SpecResolver)            *)
(***************************************************************************)

\* The rows of a table that are not of source 'ai', with their counts.
NonAiRows(table) ==
    [r \in {x \in BagToSet(table) : x.source # "ai"} |-> CopiesIn(r, table)]

SourcesOf(table) == {r.source : r \in BagToSet(table)}

\* The results of the finished gather yield at least one row.
SomeAiRowYielded == \E i \in DOMAIN results : AiRows(results[i]) # <<>>

\* C30: a run of populate_suggestions_table leaves exactly the rows of the
\* manual and fuzzy matchers, whatever the table held, so no 'ai' row; a run
\* of store_suggestions leaves every row of another source as it was, adds
\* or changes 'ai' rows only, and has a row for every suggestion of a
\* successful result; so the sources after it are those before it and, when
\* a result yields a row, 'ai'.
C30_PopulateAndClassifyDoNotCommute ==
    /\ [][resolver_pc' = "populated" =>
             /\ BagToSet(report_entity_suggestions') = RowsOfPopulate
             /\ SourcesOf(report_entity_suggestions') \subseteq {"dgacm", "dri"}]_vars
    /\ [][(resolver_pc = "classifying" /\ resolver_pc' = "stored") =>
             /\ NonAiRows(report_entity_suggestions') = NonAiRows(report_entity_suggestions)
             /\ \A r \in WrittenRows(report_entity_suggestions, report_entity_suggestions') :
                   r.source = "ai"
             /\ \A i \in DOMAIN results : \A k \in DOMAIN AiRows(results[i]) :
                   RowsWithKey(report_entity_suggestions', AiRows(results[i])[k]) # {}
             /\ SourcesOf(report_entity_suggestions') =
                   SourcesOf(report_entity_suggestions)
                      \cup (IF SomeAiRowYielded THEN {"ai"} ELSE {})]_vars

\* The LLM matcher has run after the manual and fuzzy matchers: the table
\* has rows of the three sources.
C30_Witness ==
    /\ resolver_pc = "stored"
    /\ SomeAiRowYielded
    /\ SourcesOf(report_entity_suggestions) = {"dgacm", "dri", "ai"}

(***************************************************************************)
(* Claims about the manual matcher (SpecDgacm)                             *)
(***************************************************************************)

\* The proper_title the pool has for a symbol, "" if it has none.
PoolTitleOf(sym) ==
    IF \E j \in DOMAIN db_df : db_df[j].symbol = sym
    THEN db_df[CHOOSE j \in DOMAIN db_df : db_df[j].symbol = sym].proper_title
    ELSE ""

\* The roster rows behind a pair: entity of the vocabulary, symbol of the
\* pool under that proper_title.
ContributingRows(proper_title, entity) ==
    {i \in DOMAIN dgacm_df :
        /\ dgacm_df[i].entity = entity
        /\ entity \in valid_entities
        /\ dgacm_df[i].symbol # <<>>
        /\ PoolTitleOf(dgacm_df[i].symbol) = proper_title}

\* The symbols of a set of roster rows in roster order.
RECURSIVE SymbolsInRosterOrder(_, _)
SymbolsInRosterOrder(rowset, i) ==
    IF i > Len(dgacm_df) THEN <<>>
    ELSE (IF i \in rowset THEN <<dgacm_df[i].symbol>> ELSE <<>>)
            \o SymbolsInRosterOrder(rowset, i + 1)

PoolTitles == {db_df[j].proper_title : j \in DOMAIN db_df}

\* C24: map_dgacm_to_proper_titles returns (without raising) one
\* suggestion for each pair (proper_title, entity) that has a contributing
\* roster row and none for any other pair; symbols_matched of the suggestion
\* lists the symbols of the contributing rows in roster order.
C24_OneSuggestionPerContributingPair ==
    dgacm_result.called =>
        /\ \A k \in DOMAIN dgacm_result.rows :
              LET s == dgacm_result.rows[k]
              IN /\ ContributingRows(s.proper_title, s.entity) # {}
                 /\ s.match_details.symbols_matched =
                       SymbolsInRosterOrder(ContributingRows(s.proper_title, s.entity), 1)
        /\ \A pt \in PoolTitles : \A e \in valid_entities :
              ContributingRows(pt, e) # {} =>
                 Cardinality({k \in DOMAIN dgacm_result.rows :
                                 /\ dgacm_result.rows[k].proper_title = pt
                                 /\ dgacm_result.rows[k].entity = e}) = 1

\* A roster whose two rows name the symbols of one proper_title, the later
\* symbol of the pool first: one suggestion with both symbols in roster
\* order.
C24_Witness ==
    /\ dgacm_result.called
    /\ db_df = ResolverDbFrame
    /\ dgacm_df = <<[symbol |-> SymbolS2, entity |-> "OCHA"],
                    [symbol |-> SymbolS1, entity |-> "OCHA"]>>
    /\ dgacm_result.rows =
          <<[proper_title |-> "P1", entity |-> "OCHA",
             match_details |-> [symbols_matched |-> <<SymbolS2, SymbolS1>>]]>>

(***************************************************************************)
(* Claims about the candidates of the fuzzy matcher (SpecFuzzy)            *)
(***************************************************************************)

SignificantWords(title) == {w \in ToSet(title) : w \notin STOPWORDS}

\* The rows of the pool sharing at least 2 significant words with a title.
RowsSharingTwo(title) ==
    {j \in DOMAIN db_df :
        Cardinality(SignificantWords(title) \cap SignificantWords(db_df[j].norm_title)) >= 2}

\* The candidate rows of a title.
CandidateRows(title) ==
    IF RowsSharingTwo(title) # {} THEN RowsSharingTwo(title)
    ELSE {j \in DOMAIN db_df : j <= FallbackPool}

\* The candidate rows with the highest score, if that score is above 0.
TopRows(title) ==
    {j \in CandidateRows(title) :
        /\ ratio[<<title, db_df[j].norm_title>>] > 0
        /\ \A m \in CandidateRows(title) :
              ratio[<<title, db_df[m].norm_title>>] <= ratio[<<title, db_df[j].norm_title>>]}

FirstRow(rowset) == CHOOSE j \in rowset : \A m \in rowset : j <= m

\* C23: for each title of the roster the match picked is the candidate row
\* of the highest score, the first of them in pool order, the candidates
\* being the rows sharing 2 significant words with the title or, when there
\* is none, the first FallbackPool rows of the pool; nothing is picked when
\* no candidate scores above 0; and every suggestion returned names the
\* row picked for a roster title of its entity.
C23_BestAmongCandidates ==
    dri_suggestions.called =>
        /\ \A i \in DOMAIN dri_df :
              LET title == dri_df[i].norm_title
                  best == BestMatch(title)
              IN title # <<>> =>
                    /\ best.found <=> TopRows(title) # {}
                    /\ best.found =>
                          LET j == FirstRow(TopRows(title))
                          IN /\ best.symbol = db_df[j].symbol
                             /\ best.proper_title = db_df[j].proper_title
                             /\ best.score = ratio[<<title, db_df[j].norm_title>>]
        /\ \A n \in DOMAIN dri_suggestions.rows :
              LET s == dri_suggestions.rows[n]
              IN \E i \in DOMAIN dri_df :
                    /\ dri_df[i].ENTITY = s.entity
                    /\ TopRows(dri_df[i].norm_title) # {}
                    /\ LET j == FirstRow(TopRows(dri_df[i].norm_title))
                       IN /\ db_df[j].symbol = s.match_details.matched_symbol
                          /\ db_df[j].proper_title = s.proper_title

\* The title 'youth' shares one word with the second row of the pool, which
\* scores 1.0 against it, and none with the first: the first row alone is
\* a candidate, and it is the one matched.
C23_Witness ==
    /\ dri_suggestions.called
    /\ Len(db_df) = 2
    /\ db_df[1].norm_title = DbTitlePeaceReport
    /\ db_df[2].norm_title = DbTitlePeaceYouth
    /\ ratio[<<DriTitleYouth, DbTitlePeaceYouth>>] = 10000
    /\ ratio[<<DriTitleYouth, DbTitlePeaceReport>>] >= Threshold
    /\ ratio[<<DriTitleYouth, DbTitlePeaceReport>>] < 10000
    /\ \E i \in DOMAIN dri_df :
          dri_df[i].norm_title = DriTitleYouth /\ dri_df[i].ENTITY = "DPPA"
    /\ \E n \in DOMAIN dri_suggestions.rows :
          /\ dri_suggestions.rows[n].proper_title = "P1"
          /\ dri_suggestions.rows[n].match_details.matched_symbol = db_df[1].symbol

(***************************************************************************)
(* C26: extract_symbol_without_prefix                                      *)
(***************************************************************************)

\* The entries of the table the symbol starts with.
MatchingPrefixes(cs) ==
    {k \in DOMAIN ISSUING_BODY_MAPPING : StartsWith(cs, ISSUING_BODY_MAPPING[k])}

\* C26: for every row clean_metadata returns, symbol_without_prefix is the
\* symbol with the longest prefix of the table it starts with taken off, so
\* symbol = prefix + symbol_without_prefix; that prefix is the first entry
\* that matches, as no symbol starts with two entries of the table; a symbol
\* that starts with no entry, and a null one, come back unchanged.
C26_LongestPrefixStripped ==
    /\ \A k, m \in DOMAIN ISSUING_BODY_MAPPING :
          k # m => ~StartsWith(ISSUING_BODY_MAPPING[k], ISSUING_BODY_MAPPING[m])
    /\ stage = "clean" =>
        \A i \in DOMAIN df.rows :
            LET sym == df.rows[i].symbol
                r == df.rows[i].symbol_without_prefix
            IN IF ~IsStr(sym) THEN r = sym
               ELSE IF MatchingPrefixes(sym.v) = {} THEN r = sym
               ELSE /\ Cardinality(MatchingPrefixes(sym.v)) = 1
                    /\ \E k \in MatchingPrefixes(sym.v) :
                          /\ \A m \in MatchingPrefixes(sym.v) :
                                /\ k <= m
                                /\ Len(ISSUING_BODY_MAPPING[m]) <= Len(ISSUING_BODY_MAPPING[k])
                          /\ IsStr(r)
                          /\ sym.v = ISSUING_BODY_MAPPING[k] \o r.v

C26_Witness ==
    /\ stage = "clean"
    /\ \E i, j, k \in DOMAIN df.rows :
          /\ df.rows[i].symbol = Str(SymbolHrc)
          /\ df.rows[i].symbol_without_prefix = Str(<<"1", "[", "A", "]">>)
          /\ df.rows[j].symbol = Str(SymbolRes)
          /\ df.rows[j].symbol_without_prefix = Str(<<"1">>)
          /\ df.rows[k].symbol = Str(<<"A", "/", "1">>)
          /\ df.rows[k].symbol_without_prefix = Str(<<"A", "/", "1">>)

(***************************************************************************)
(* C27: the columns derived from the symbol agree with the canonical symbol *)
(***************************************************************************)

\* The symbols of the record of payload raw in the frame handed in, list
\* cells spread out.
SourceSymbols(raw) ==
    UNION {LET cell == df_in.rows[i].symbol
           IN IF IsList(cell) THEN ToSet(cell.v)
              ELSE IF IsStr(cell) THEN {cell.v} ELSE {} :
           i \in {n \in DOMAIN df_in.rows : df_in.rows[n].raw_json = raw}}

\* t is s in upper case without its leading and trailing whitespace: the
\* part of s from a to b, whitespace only outside it, none at its two ends.
CanonicalOf(t, s) ==
    \E a \in 1..(Len(s) + 1) : \E b \in 0..Len(s) :
        /\ a <= b + 1
        /\ \A n \in DOMAIN s : (n < a \/ n > b) => s[n] \in Spaces
        /\ a <= b => (s[a] \notin Spaces /\ s[b] \notin Spaces)
        /\ Len(t) = b - a + 1
        /\ \A n \in DOMAIN t : t[n] = Upper(s[a + n - 1])

\* C27: in every row clean_metadata returns with a symbol, the symbol is a
\* symbol of its record in upper case with leading and trailing whitespace
\* removed and the whitespace inside kept; the parts of symbol_split joined
\* give the symbol and symbol_split_n is their number; the parts of
\* symbol_without_prefix_split joined give symbol_without_prefix; is_part
\* holds exactly when the symbol contains '[' or ']'.
C27_DerivedColumnsAgreeWithSymbol ==
    stage = "clean" =>
        \A i \in DOMAIN df.rows :
            LET row == df.rows[i]
            IN IsStr(row.symbol) =>
                  /\ \E s \in SourceSymbols(row.raw_json) : CanonicalOf(row.symbol.v, s)
                  /\ Concat(row.symbol_split) = row.symbol.v
                  /\ row.symbol_split_n = Len(row.symbol_split)
                  /\ \A n \in DOMAIN row.symbol_split : row.symbol_split[n] # <<>>
                  /\ IsStr(row.symbol_without_prefix)
                  /\ Concat(row.symbol_without_prefix_split) = row.symbol_without_prefix.v
                  /\ row.symbol_without_prefix_split_n = Len(row.symbol_without_prefix_split)
                  /\ row.is_part = (\E n \in DOMAIN row.symbol.v : row.symbol.v[n] \in {"[", "]"})

C27_Witness ==
    /\ stage = "clean"
    /\ \E i \in DOMAIN df_in.rows :
          df_in.rows[i].symbol = List(<<SymbolResLower, SymbolRes>>)
    /\ \E i, j \in DOMAIN df.rows :
          /\ df.rows[i].symbol = Str(SymbolRes)
          /\ df.rows[i].symbol_split = <<<<"A">>, <<"/">>, <<"R", "E", "S">>, <<"/">>, <<"1">>>>
          /\ df.rows[i].symbol_split_n = 5
          /\ df.rows[i].symbol_without_prefix_split = <<<<"1">>>>
          /\ ~df.rows[i].is_part
          /\ df.rows[j].symbol = Str(<<"A", " ", "1">>)
          /\ df.rows[j].symbol_split_n = 3

(***************************************************************************)
(* C29: the rows of one record                                             *)
(***************************************************************************)

\* C29: the rows clean_metadata returns for one raw record have pairwise
\* distinct symbols.
C29_DistinctSymbolsPerRecord ==
    stage = "clean" =>
        \A i, j \in DOMAIN df.rows :
            (i # j /\ df.rows[i].raw_json = df.rows[j].raw_json
                   /\ IsStr(df.rows[i].symbol) /\ IsStr(df.rows[j].symbol))
                => df.rows[i].symbol # df.rows[j].symbol

(***************************************************************************)
(* C25: the document category (SpecCategory)                               *)
(***************************************************************************)

HasSymbol(row) == ~SkippedSymbol(row.symbol)

\* The symbol starts with the prefix, letter case aside.
StartsWithAnyCase(cs, prefix) ==
    /\ Len(prefix) <= Len(cs)
    /\ \A i \in DOMAIN prefix : Upper(cs[i]) = Upper(prefix[i])

\* The resource-type text of a row in lower case: that of a list, none
\* otherwise.
ResourceTypeText(row) ==
    IF IsList(row.resource_type_level3)
    THEN LowerStr(JoinWithSpace(row.resource_type_level3.v)) ELSE <<>>

\* C25: the category stored with a row is the override when one is passed;
\* without one it is 'resolution' for a symbol starting, letter case aside,
\* with A/RES/, S/RES/, E/RES/ or A/HRC/RES/ whatever the resource type;
\* else 'resolution' when the resource-type text contains 'resolution', else
\* 'report' when it contains 'report', else 'letter' when it contains
\* 'letter' or 'note verbale'; else 'report'. Without an override it is one
\* of report, resolution, letter, other.
C25_CategoryPrecedence ==
    cats.called =>
        LET kept == SelectSeq(cat_df, HasSymbol)
            supplied == document_category # None /\ document_category # <<>>
        IN /\ Len(cats.rows) = Len(kept)
           /\ \A j \in DOMAIN kept :
                 LET c == cats.rows[j].document_category
                     sym == kept[j].symbol.v
                     text == ResourceTypeText(kept[j])
                 IN /\ cats.rows[j].symbol = kept[j].symbol
                    /\ supplied => c = document_category
                    /\ ~supplied =>
                          /\ c \in {WordReport, WordResolution, WordLetter, WordOther}
                          /\ c = IF \E p \in {<<"A", "/", "R", "E", "S", "/">>,
                                              <<"S", "/", "R", "E", "S", "/">>,
                                              <<"E", "/", "R", "E", "S", "/">>,
                                              <<"A", "/", "H", "R", "C", "/", "R", "E", "S", "/">>} :
                                        StartsWithAnyCase(sym, p)
                                 THEN WordResolution
                                 ELSE IF Contains(text, WordResolution) THEN WordResolution
                                 ELSE IF Contains(text, WordReport) THEN WordReport
                                 ELSE IF Contains(text, WordLetter) \/ Contains(text, WordNoteVerbale)
                                      THEN WordLetter
                                 ELSE WordReport

C25_Witness ==
    /\ cats.called
    /\ document_category = None
    /\ Len(cat_df) = 2
    /\ cat_df[1].symbol = Str(<<"s", "/", "r", "e", "s", "/", "1">>)
    /\ cat_df[1].resource_type_level3 = List(<<TypeLetters>>)
    /\ cat_df[2].symbol = Str(<<"A", "/", "H", "R", "C", "/", "1">>)
    /\ cat_df[2].resource_type_level3 = List(<<TypeNote, TypeVerbale>>)
    /\ cats.rows[1].document_category = WordResolution
    /\ cats.rows[2].document_category = WordLetter

(***************************************************************************)
(* C22: the paging of get_reports_metadata (SpecPager)                     *)
(***************************************************************************)

\* The number a date starts with: its year.
RECURSIVE YearFrom(_, _)
YearFrom(cs, acc) ==
    IF cs = <<>> \/ Head(cs) \notin Digits THEN acc
    ELSE YearFrom(Tail(cs), acc * 10 + (CHOOSE d \in 0..9 : DigitChars[d + 1] = Head(cs)))

\* A full page with dates, the latest of them before start_date.
IsOldFullPage(page) ==
    /\ Len(page) >= limit
    /\ DatesOf(page) # {}
    /\ \A d \in DatesOf(page) : YearFrom(d, 0) < start_date

\* The number of old full pages in a row that end with the k-th call.
RECURSIVE TrailingOld(_)
TrailingOld(k) ==
    IF k = 0 \/ ~IsOldFullPage(fetched[k].page) THEN 0 ELSE 1 + TrailingOld(k - 1)

\* The k-th page ends the loop: empty, shorter than limit, or the third old
\* full page in a row.
EndsLoop(k) == Len(fetched[k].page) < limit \/ TrailingOld(k) >= 3

PagerSafety ==
    /\ \A k \in DOMAIN fetched : fetched[k].skip = (k - 1) * limit
    /\ all_results = Concat([k \in DOMAIN fetched |-> fetched[k].page])
    /\ \A k \in DOMAIN fetched : k < Len(fetched) => ~EndsLoop(k)
    /\ pager_pc = "returned" <=> (fetched # <<>> /\ EndsLoop(Len(fetched)))
    /\ pager_pc = "loop" =>
          /\ old_streak = TrailingOld(Len(fetched))
          /\ pager_skip = Len(fetched) * limit

\* C22: the pages are requested at skip = 0, limit, 2*limit, ..., each once,
\* and all_results holds the records of every page fetched, in order; the
\* loop returns after the first page that is empty or shorter than limit,
\* or after the third full page in a row whose latest date is before
\* start_date, the records of these pages included, and not before; a page
\* without dates or with a date not before start_date sets the streak back
\* to zero; and with a collaborator that in the end answers with a short or
\* empty page, the loop returns.
C22_PagesInOrderAndLoopReturns ==
    /\ []PagerSafety
    /\ <>(pager_pc = "returned")

C22_Witness ==
    /\ pager_pc = "returned"
    /\ Len(fetched) = 5
    /\ IsOldFullPage(fetched[1].page)
    /\ ~IsOldFullPage(fetched[2].page)
    /\ Len(fetched[2].page) = limit
    /\ TrailingOld(5) = 3
    /\ Len(all_results) = 5 * limit
    /\ fetched[5].skip = 4 * limit

(***************************************************************************)
(* C21: re-ingestion and the derived embedding (SpecEmbed)                 *)
(***************************************************************************)

\* C21: once an ingestion has written its rows, no row it wrote carries an
\* embedding computed from other values than the row now holds.
C21_NoStaleEmbeddingAfterUpsert ==
    store_pc = "done" =>
        \A i \in DOMAIN store_rows :
            LET s == store_rows[i].symbol
            IN (s \in DOMAIN embedding /\ s \in DOMAIN documents) =>
                  embedding[s] = EmbeddingOf(prepare_text_for_embedding(s, documents[s]))

=============================================================================
